---- MODULE Spec2Model ----
(***************************************************************************)
(* State-machine model of the pribambase sync add-on: the protocol         *)
(* handlers of messaging/handle.py and the host-state update utilities of  *)
(* util.py (deferred-execution bridge, image identity, image and           *)
(* spritesheet update).                                                    *)
(*                                                                         *)
(* Two execution contexts share one thread cooperatively: the async        *)
(* context runs the handlers of one top-level message at a time, the main  *)
(* context delivers events to modal operators.  A handler that never       *)
(* awaits something that suspends keeps the thread.                        *)
(***************************************************************************)
EXTENDS Integers, Sequences, FiniteSets, TLC

VARIABLES
    images,             \* bpy.data.images: image name -> image record
    actions,            \* bpy.data.actions: action name -> keyframe points
    locked,             \* window_manager.is_interface_locked
    has_lock_query,     \* the host has the is_interface_locked attribute
    window,             \* context.window is available
    skip_modal,         \* addon.prefs.skip_modal
    update_image_args,  \* util._update_image_args
    update_spritesheet_args, \* util._update_spritesheet_args
    ops,                \* modal handlers registered, in registration order
    timers,             \* number of event timers registered
    last_report,        \* the report self.report surfaced last
    stack,              \* remaining sub-messages of every active Batch.execute
    status,             \* position of the async task
    rename,             \* arguments of the ChangeName.execute in progress
    yielded,            \* the async task is suspended, the main context may run
    cur,                \* the top-level message being processed (ghost)
    dispatched,         \* messages handed to process() for cur, in order (ghost)
    polled,             \* the ChangeName in progress has polled the lock (ghost)
    input,              \* a function under study and the arguments it is given
    output,             \* what the function returned or left behind
    applied,            \* the function has been applied to input
    session,            \* the pencil operator: "none", "modal" or "ended"
    tool,               \* its properties fg, fg_mode, bg, bg_mode, draw_with_bg
    is_drawing,         \* self.is_drawing
    last_px,            \* self.last_px
    canvas,             \* self.image: pixels and width
    draw_handlers,      \* preview draw callbacks attached to the 3D view
    log,                \* what the session has done so far (ghost)
    ref_images,         \* reference images: file, size, pixels, prescale
    ref_objects,        \* image-backed empty objects: the image of each
    reloads,            \* reloads of each reference image so far (ghost)
    rig_obj,            \* the active mesh object: UV layers, custom properties,
                        \* modifiers, bindings, drivers, action
    rig_images,         \* bpy.data.images as the rig operator reads it
    rig_actions,        \* bpy.data.actions as the rig operator reads it
    rig_dialog,         \* the properties dialog of the rig operator is open
    rig_result,         \* outcome of the last run of the rig operator
    rig_log,            \* what each binding was asked for (ghost)
    scene,              \* the scene: sb_state.action_preview and the preview range
    objects,            \* the objects of the scene: type and animation_data.action
    active_object,      \* context.active_object
    subscriptions,      \* msgbus subscriptions of the callback owner, by key
    notified,           \* a subscription has a notification to deliver
    last_action         \* the module's global: name of the action seen last

sync_vars == <<images, actions, locked, has_lock_query, window, skip_modal,
               update_image_args, update_spritesheet_args, ops, timers, last_report,
               stack, status, rename, yielded, cur, dispatched, polled>>

fn_vars == <<input, output, applied>>

pencil_vars == <<session, tool, is_drawing, last_px, canvas, draw_handlers, log>>

ref_vars == <<ref_images, ref_objects, reloads>>

rig_vars == <<rig_obj, rig_images, rig_actions, rig_dialog, rig_result, rig_log>>

preview_vars == <<scene, objects, active_object, subscriptions, notified, last_action>>

ui_vars == <<ref_vars, rig_vars, preview_vars>>

vars == <<sync_vars, fn_vars, pencil_vars, ui_vars>>

(***************************************************************************)
(* Bounds                                                                  *)
(***************************************************************************)
\* event timers that may be registered at once
MaxTimers == 2

\* largest absolute coordinate of a line's end points
MaxCoord == 3

\* largest width and height of an image buffer
MaxSide == 2

\* largest number of frames of a Spritesheet message
MaxFrames == 10

\* largest number of frames of a Spritesheet message applied to the host
MaxSheetFrames == 5

\* largest prescale factor of a reference image
MaxScale == 3

\* most reference objects in a scene
MaxRefs == 2

\* most reloads of one reference image
MaxReloads == 2

\* most runs of the rig operator on the object
MaxRigCalls == 3

\* most frames of a Spritesheet message that is applied twice
MaxRepeatFrames == 3

\* events the modal handler of a pencil session may receive before the release
MaxEvents == 3

\* Python's None where a record is expected, and where a name is expected
None == [none |-> TRUE]
NoName == ""

(***************************************************************************)
(* Small pure helpers                                                      *)
(***************************************************************************)
RECURSIVE Gcd(_, _)
Gcd(a, b) == IF b = 0 THEN a ELSE Gcd(b, a % b)

\* a rational p/q (q > 0) in lowest terms
Rat(p, q) == LET g == Gcd(IF p < 0 THEN -p ELSE p, q) IN <<p \div g, q \div g>>

Reverse(s) == [i \in 1..Len(s) |-> s[Len(s) + 1 - i]]

RECURSIVE Concat(_)
Concat(ss) == IF ss = <<>> THEN <<>> ELSE Head(ss) \o Concat(Tail(ss))

\* Python slice s[lo:hi] with 0-based bounds, clamped as Python clamps them
Slice(s, lo, hi) ==
    LET l == IF lo < 0 THEN 0 ELSE lo
        h == IF hi > Len(s) THEN Len(s) ELSE hi
    IN IF h <= l THEN <<>> ELSE SubSeq(s, l + 1, h)

\* math.ceil(n ** 0.5)
\* the root rounded down
FloorSqrt(n) == CHOOSE c \in 0..n : c * c <= n /\ (c + 1) * (c + 1) > n

CeilSqrt(n) == CHOOSE c \in 0..n : c * c >= n /\ (c = 0 \/ (c - 1) * (c - 1) < n)

\* math.ceil(a / b), b > 0
CeilDiv(a, b) == (a + b - 1) \div b

(***************************************************************************)
(* Paths and image identity                                                *)
(***************************************************************************)
\* bpy.path.abspath: a document-relative path ("//...") resolved against the
\* document's directory, here the root
Abspath(p) ==
    IF Len(p) >= 2 /\ SubSeq(p, 1, 2) = "//"
    THEN "/" \o SubSeq(p, 3, Len(p))
    ELSE p

\* os.path.normpath, as far as the paths of this model need it: "." segments
\* are dropped
RECURSIVE Normpath(_)
Normpath(p) ==
    IF \E i \in 1..(Len(p) - 2) : SubSeq(p, i, i + 2) = "/./"
    THEN LET i == CHOOSE j \in 1..(Len(p) - 2) : SubSeq(p, j, j + 2) = "/./"
         IN Normpath(SubSeq(p, 1, i) \o SubSeq(p, i + 3, Len(p)))
    ELSE p

\* sb_props.source_abs: the tracked source as an absolute path
source_abs(img) == IF img.source = "" THEN "" ELSE Abspath(img.source)

\* sb_props.source_set
source_set(img, v) == [img EXCEPT !.source = v]

\* a key that takes the load path of a packed image as well
ImageNameByPath(img, n) ==
    IF img.source # "" THEN Normpath(source_abs(img))
    ELSE IF img.filepath # "" THEN Normpath(Abspath(img.filepath)) ELSE n

\* util.image_name; n is img.name
image_name(img, n) ==
    IF img.source # "" THEN Normpath(source_abs(img))
    ELSE IF ~img.packed /\ img.filepath # ""
         THEN Normpath(IF Len(img.filepath) >= 2 /\ SubSeq(img.filepath, 1, 2) = "//"
                       THEN Abspath(img.filepath) ELSE img.filepath)
         ELSE n

\* the order in which bpy.data.images iterates: by name
ImageOrder == <<"a", "a [sheet]", "b", "b [sheet]">>

\* a lookup that falls back to the first image instead of finding none
FindImageOrFirst(imgs, name) ==
    LET hit == {k \in 1..Len(ImageOrder) :
                    /\ ImageOrder[k] \in DOMAIN imgs
                    /\ image_name(imgs[ImageOrder[k]], ImageOrder[k]) = name}
        any == {k \in 1..Len(ImageOrder) : ImageOrder[k] \in DOMAIN imgs}
    IN ImageOrder[CHOOSE k \in (IF hit = {} THEN any ELSE hit) :
                      \A j \in (IF hit = {} THEN any ELSE hit) : k <= j]

\* next(i for i in bpy.data.images if name == image_name(i)), NoName at
\* StopIteration
FindImage(imgs, name) ==
    LET hit == {k \in 1..Len(ImageOrder) :
                    /\ ImageOrder[k] \in DOMAIN imgs
                    /\ image_name(imgs[ImageOrder[k]], ImageOrder[k]) = name}
    IN IF hit = {} THEN NoName
       ELSE ImageOrder[CHOOSE k \in hit : \A j \in hit : k <= j]

\* a fresh image datablock, bpy.data.images.new(name, w, h, alpha=True)
NewImage(w, h) ==
    [source |-> "", filepath |-> "", packed |-> FALSE, has_data |-> TRUE,
     size |-> <<w, h>>, frame |-> 0, pixels |-> [i \in 1..(w * h * 4) |-> <<0, 1>>],
     use_fake_user |-> FALSE,
     sheet |-> NoName, is_sheet |-> FALSE, sheet_size |-> <<0, 0>>,
     sheet_start |-> 0, sheet_frames |-> <<>>]

\* util.new_packed_image: the image is saved to a temporary file, packed, and
\* its load path cleared
new_packed_image(imgs, name, w, h) ==
    (name :> [NewImage(w, h) EXCEPT !.packed = TRUE, !.filepath = "",
                                    !.use_fake_user = TRUE]) @@ imgs

(***************************************************************************)
(* Pixel buffers: a blob is a flat sequence of bytes, stored pixels are    *)
(* rationals in lowest terms                                               *)
(***************************************************************************)
\* np.float32(pixels) / 255.0
ToFloats(bytes) == [i \in 1..Len(bytes) |-> Rat(bytes[i], 255)]

\* pixels.shape = (h, pixels.size // h)
Reshape(flat, h) ==
    LET stride == Len(flat) \div h
    IN [r \in 1..h |-> SubSeq(flat, (r - 1) * stride + 1, r * stride)]

\* pixels[::-1,:].ravel()
\* rows stored in the order received
KeepRows(flat, h) == Concat(Reshape(flat, h))

FlipRows(flat, h) == Concat(Reverse(Reshape(flat, h)))

(***************************************************************************)
(* Deferred operations of util.py.  Each modal_execute is an operator on   *)
(* the host record h = [images, actions, update_image_args,                *)
(* update_spritesheet_args].                                               *)
(***************************************************************************)
\* SB_OT_update_image.modal_execute with self.args = args
update_image_modal_execute(h, args) ==
    LET n == IF args = None THEN NoName ELSE FindImage(h.images, args.name)
    IN IF n = NoName THEN h
       ELSE LET img  == h.images[n]
                w    == args.w
                ht   == args.h
                img1 == IF ~img.has_data
                        THEN [img EXCEPT !.has_data = TRUE, !.size = <<w, ht>>,
                                         !.packed = TRUE, !.filepath = "",
                                         !.use_fake_user = TRUE]
                        ELSE IF img.size[1] # w \/ img.size[2] # ht
                             THEN [img EXCEPT !.size = <<w, ht>>]
                             ELSE img
                img2 == IF args.frame # -1 THEN [img1 EXCEPT !.frame = args.frame]
                        ELSE img1
                img3 == [img2 EXCEPT !.pixels = FlipRows(ToFloats(args.pixels), ht)]
            IN [h EXCEPT !.images[n] = img3, !.update_image_args = None]

RenderFps == 24
RenderFpsBase == 1
SceneFrameStart == 1

\* tag_frames + tag_frames[-2:0:-1]
PingPong(s) == s \o [i \in 1..(IF Len(s) > 2 THEN Len(s) - 2 ELSE 0) |-> s[Len(s) - i]]

\* keyframe points that all stay at the scene's first frame
TagPointsAtStart(npoints, start, frames, tag) ==
    LET slice == Slice(frames, tag[2] - start, tag[3] - start + 1)
        tag_frames == Append(slice, slice[Len(slice)])
    IN [i \in 1..Len(tag_frames) |->
          [co |-> <<Rat(SceneFrameStart, 1), tag_frames[i][1]>>,
           interpolation |-> "CONSTANT"]]

\* the keyframe points of one tag's curve, from the npoints the curve has
TagPoints(npoints, start, frames, tag) ==
    LET tag_first == tag[2]
        tag_last  == tag[3]
        ani_dir   == tag[4]
        slice == Slice(frames, tag_first - start, tag_last - start + 1)
        dirn  == IF ani_dir = 1 THEN Reverse(slice)
                 ELSE IF ani_dir = 2 THEN PingPong(slice) ELSE slice
        tag_frames == Append(dirn, dirn[Len(dirn)])
        time[i \in 1..Len(tag_frames)] ==
            IF i = 1 THEN 0 ELSE time[i - 1] + tag_frames[i - 1][2]
    IN [i \in 1..Len(tag_frames) |->
          [co |-> <<Rat(SceneFrameStart * 1000 * RenderFpsBase + time[i] * RenderFps,
                        1000 * RenderFpsBase),
                    tag_frames[i][1]>>,
           interpolation |-> "CONSTANT"]]

\* a curve that is only ever extended
KeepPoints(points, nframes) ==
    points \o [i \in 1..(nframes - Len(points)) |->
                  [co |-> <<<<0, 1>>, 0>>, interpolation |-> "BEZIER"]]

\* a curve that gets nframes more points whatever it has
AddPoints(points, nframes) ==
    points \o [i \in 1..nframes |-> [co |-> <<<<0, 1>>, 0>>, interpolation |-> "BEZIER"]]

\* points.add(nframes - npoints), or points.remove(points[0], fast=True)
\* npoints - nframes times
ResizePoints(points, nframes) ==
    IF Len(points) < nframes
    THEN points \o [i \in 1..(nframes - Len(points)) |->
                       [co |-> <<<<0, 1>>, 0>>, interpolation |-> "BEZIER"]]
    ELSE SubSeq(points, Len(points) - nframes + 1, Len(points))

\* for point, (n, dt) in zip(points, tag_frames): the point is overwritten
ZipPoints(points, values) ==
    [i \in 1..Len(points) |-> IF i <= Len(values) THEN values[i] ELSE points[i]]

\* the loop body of update_actions for one tag
RECURSIVE UpdateTagActions(_, _, _, _, _)
UpdateTagActions(acts, img_name, start, frames, tagseq) ==
    IF tagseq = <<>> THEN acts
    ELSE LET tag == Head(tagseq)
             action_name == IF tag[1] = "" THEN img_name
                            ELSE img_name \o ": " \o tag[1]
             npoints == IF action_name \in DOMAIN acts
                        THEN Len(acts[action_name].points) ELSE 0
             old == IF action_name \in DOMAIN acts
                    THEN acts[action_name].points ELSE <<>>
             values == TagPoints(npoints, start, frames, tag)
             action == [id_root |-> "OBJECT", use_fake_user |-> TRUE,
                        points |-> ZipPoints(ResizePoints(old, Len(values)), values)]
             acts1 == IF action_name \in DOMAIN acts
                      THEN [acts EXCEPT ![action_name].points = action.points]
                      ELSE (action_name :> action) @@ acts
         IN UpdateTagActions(acts1, img_name, start, frames, Tail(tagseq))

\* SB_OT_update_spritesheet.update_actions
update_actions(acts, img_name, start, frames, tags, current_tag) ==
    LET tag_editor ==
            IF current_tag # ""
            THEN LET k == CHOOSE j \in 1..Len(tags) :
                            /\ tags[j][1] = current_tag
                            /\ \A i \in 1..(j - 1) : tags[i][1] # current_tag
                 IN <<"", tags[k][2], tags[k][3], tags[k][4]>>
            ELSE <<"", start, start + Len(frames), 0>>
    IN UpdateTagActions(acts, img_name, start, frames, <<tag_editor>> \o tags)

\* a frame table that is only ever extended
SheetFramesExtended(fd, start, frames) ==
    LET t[i \in 1..Len(frames)] == IF i = 1 THEN 0 ELSE t[i - 1] + frames[i - 1][2]
        sized == fd \o [i \in 1..(Len(frames) - Len(fd)) |->
                           [frame |-> 0, time |-> <<0, 1>>, index |-> 0]]
    IN [i \in 1..Len(sized) |->
          IF i <= Len(frames)
          THEN [frame |-> (i - 1) + start, time |-> Rat(t[i], 1000), index |-> i - 1]
          ELSE sized[i]]

\* the frame table of a sheet after the trim, the extension and the overwrite
SheetFrames(fd, start, frames) ==
    LET t[i \in 1..Len(frames)] == IF i = 1 THEN 0 ELSE t[i - 1] + frames[i - 1][2]
        kept  == IF Len(fd) > Len(frames)
                 THEN SubSeq(fd, Len(fd) - Len(frames) + 1, Len(fd)) ELSE fd
        sized == kept \o [i \in 1..(Len(frames) - Len(kept)) |->
                             [frame |-> 0, time |-> <<0, 1>>, index |-> 0]]
    IN [i \in 1..Len(sized) |->
          IF i <= Len(frames)
          THEN [frame |-> (i - 1) + start, time |-> Rat(t[i], 1000), index |-> i - 1]
          ELSE sized[i]]

\* the cut that always takes the first cell
FirstCellPixels(rows, size, count, current_frame) ==
    Concat([r \in 1..size[2] |-> Slice(rows[r], 0, size[1] * 4)])

\* pixels[frame_y*h : (frame_y+1)*h, frame_x*w*4 : (frame_x+1)*w*4], ravelled
FramePixels(rows, size, count, current_frame) ==
    LET frame_x == current_frame % count[1]
        frame_y == current_frame \div count[1]
        picked  == Slice(rows, frame_y * size[2], (frame_y + 1) * size[2])
    IN Concat([r \in 1..Len(picked) |->
                 Slice(picked[r], frame_x * size[1] * 4, (frame_x + 1) * size[1] * 4)])

\* SB_OT_update_spritesheet.modal_execute with self.args = args
update_spritesheet_modal_execute(h, args) ==
    LET n == IF args = None THEN NoName ELSE FindImage(h.images, args.name)
    IN IF n = NoName THEN h
       ELSE LET img      == h.images[n]
                tex_w    == args.size[1] * args.count[1]
                tex_h    == args.size[2] * args.count[2]
                tex_name == IF img.sheet # NoName THEN img.sheet ELSE n \o " [sheet]"
                imgs1    == IF img.sheet = NoName /\ tex_name \notin DOMAIN h.images
                            THEN new_packed_image(h.images, tex_name, tex_w, tex_h)
                            ELSE h.images
                imgs2    == [imgs1 EXCEPT ![n].sheet = tex_name]
                imgs3    == [imgs2 EXCEPT
                               ![tex_name].is_sheet = TRUE,
                               ![tex_name].sheet_size = args.count,
                               ![tex_name].sheet_start = args.start,
                               ![tex_name].sheet_frames =
                                   SheetFrames(@, args.start, args.frames)]
                acts     == update_actions(h.actions, n, args.start, args.frames,
                                           args.tags, args.current_tag)
                h1 == [h EXCEPT !.images = imgs3, !.actions = acts]
                h2 == update_image_modal_execute(h1,
                         [w |-> tex_w, h |-> tex_h, name |-> tex_name, frame |-> -1,
                          pixels |-> Concat(args.pixels)])
                h3 == update_image_modal_execute(h2,
                         [w |-> args.size[1], h |-> args.size[2], name |-> args.name,
                          frame |-> args.current_frame,
                          pixels |-> FramePixels(args.pixels, args.size, args.count,
                                                 args.current_frame)])
            IN [h3 EXCEPT !.update_spritesheet_args = None]

(***************************************************************************)
(* The deferred-execution bridge.  The world w = [h, ops, timers,          *)
(* last_report] is what an operator invocation may change.                 *)
(***************************************************************************)
\* a condition that ignores the preference
WindowOnly == window

\* the condition of ModalExecuteMixin.execute
Bridged == window /\ ~skip_modal

\* arguments read from the module-level slot of the operator's kind at the tick
SlotArgs(op, h) ==
    IF op.kind = "update_image" THEN h.update_image_args ELSE h.update_spritesheet_args

\* the arguments modal_execute unpacks: self.args, set by the operator's own
\* execute from the module-level slot
OpArgs(op, h) == op.args

\* the modal_execute of each operator class, as a timer tick dispatches it
modal_execute(op, w) ==
    CASE op.kind = "update_image" ->
            [w EXCEPT !.h = update_image_modal_execute(w.h, OpArgs(op, w.h))]
      [] op.kind = "update_spritesheet" ->
            [w EXCEPT !.h = update_spritesheet_modal_execute(w.h, OpArgs(op, w.h))]
      [] op.kind = "report" ->
            [w EXCEPT !.last_report = <<op.args.message_type, op.args.message>>]

\* an execute that always takes the non-modal branch
ExecuteNow(op, w, now) == now

\* ModalExecuteMixin.execute, called from the async context; now is what
\* self.modal_execute(context, None) of the operator's own class returns
MixinExecute(op, w, now) ==
    IF Bridged
    THEN [w EXCEPT !.ops = Append(@, op), !.timers = @ + 1]
    ELSE now

\* util.update_image and SB_OT_update_image.execute
update_image(w, args) ==
    LET w1 == [w EXCEPT !.h.update_image_args = args]
        op == [kind |-> "update_image", args |-> w1.h.update_image_args, call |-> args]
    IN MixinExecute(op, w1,
           [w1 EXCEPT !.h = update_image_modal_execute(w1.h, OpArgs(op, w1.h))])

\* util.update_spritesheet and SB_OT_update_spritesheet.execute
update_spritesheet(w, args) ==
    LET w1 == [w EXCEPT !.h.update_spritesheet_args = args]
        op == [kind |-> "update_spritesheet", args |-> w1.h.update_spritesheet_args,
               call |-> args]
    IN MixinExecute(op, w1,
           [w1 EXCEPT !.h = update_spritesheet_modal_execute(w1.h, OpArgs(op, w1.h))])

\* bpy.ops.pribambase.report(message_type=..., message=...)
report(w, message_type, message) ==
    LET a == [message_type |-> message_type, message |-> message]
    IN MixinExecute([kind |-> "report", args |-> a, call |-> a], w,
                    [w EXCEPT !.last_report = <<a.message_type, a.message>>])

World ==
    [h |-> [images |-> images, actions |-> actions,
            update_image_args |-> update_image_args,
            update_spritesheet_args |-> update_spritesheet_args],
     ops |-> ops, timers |-> timers, last_report |-> last_report]

SetWorld(w) ==
    /\ images' = w.h.images
    /\ actions' = w.h.actions
    /\ update_image_args' = w.h.update_image_args
    /\ update_spritesheet_args' = w.h.update_spritesheet_args
    /\ ops' = w.ops
    /\ timers' = w.timers
    /\ last_report' = w.last_report

Remove(s, i) == SubSeq(s, 1, i - 1) \o SubSeq(s, i + 1, Len(s))


\* ModalExecuteMixin.modal for a TIMER event delivered to operator i
TimerEvent(i) ==
    /\ yielded
    /\ i \in 1..Len(ops)
    /\ LET op == ops[i]
           w1 == [World EXCEPT !.timers = @ - 1, !.ops = Remove(@, i)]
       IN SetWorld(modal_execute(op, w1))
    /\ UNCHANGED <<locked, has_lock_query, window, skip_modal, stack, status, rename,
                   yielded, cur, dispatched, polled>>

\* ModalExecuteMixin.modal for any other event delivered to operator i: the
\* operator returns FINISHED, so the host drops its modal handler
OtherEvent(i) ==
    /\ yielded
    /\ i \in 1..Len(ops)
    /\ ops' = Remove(ops, i)
    /\ UNCHANGED <<images, actions, locked, has_lock_query, window, skip_modal,
                   update_image_args, update_spritesheet_args, timers, last_report,
                   stack, status, rename, yielded, cur, dispatched, polled>>

\* the host locks or unlocks its interface (a render starts or ends)
SetLocked(v) ==
    /\ yielded
    /\ locked # v
    /\ locked' = v
    /\ UNCHANGED <<images, actions, has_lock_query, window, skip_modal,
                   update_image_args, update_spritesheet_args, ops, timers, last_report,
                   stack, status, rename, yielded, cur, dispatched, polled>>

(***************************************************************************)
(* Protocol messages, already decoded by the handlers' parse step          *)
(***************************************************************************)
RedOverClear == <<255, 0, 0, 255,  0, 0, 0, 0>>
BlueOverWhite == <<0, 0, 255, 255,  255, 255, 255, 255>>

ImageMsg(name, frame, data) ==
    [t |-> "I", size |-> <<1, 2>>, frame |-> frame, name |-> name, data |-> data]

SheetMsg(name, current_frame) ==
    [t |-> "G", size |-> <<1, 2>>, name |-> name, start |-> 1, length |-> 3,
     current_frame |-> current_frame,
     frames |-> <<<<0, 100>>, <<1, 200>>, <<2, 100>>>>,
     tags |-> <<<<"walk", 1, 3, 2>>>>, current_tag |-> "",
     images |-> <<RedOverClear, BlueOverWhite, RedOverClear>>]

FrameMsg(name, frame) ==
    [t |-> "F", frame |-> frame, name |-> name, start |-> 1,
     frames |-> <<<<0, 100>>, <<1, 200>>>>]

RenameMsg(old_name, new_name) ==
    [t |-> "C", old_name |-> old_name, new_name |-> new_name]

BatchMsg(messages) == [t |-> "[", messages |-> messages]

Leaves ==
    {ImageMsg("/p.ase", 0, RedOverClear), ImageMsg("/p.ase", 1, BlueOverWhite),
     SheetMsg("/p.ase", 1),
     FrameMsg("/p.ase", 1),
     RenameMsg("/p.ase", "/q.ase"), RenameMsg("/p.ase", "/r.png")}

Batches ==
    {BatchMsg(<<BatchMsg(<<ImageMsg("/p.ase", 0, RedOverClear),
                           RenameMsg("/p.ase", "/q.ase")>>),
                ImageMsg("/p.ase", 1, BlueOverWhite)>>),
     BatchMsg(<<FrameMsg("/p.ase", 1), ImageMsg("/p.ase", 1, BlueOverWhite)>>)}

TopMessages == Leaves \cup Batches

\* the messages a message hands to process(), itself included, in order
RECURSIVE Flatten(_)
Flatten(m) ==
    IF m.t = "["
    THEN <<m>> \o Concat([i \in 1..Len(m.messages) |-> Flatten(m.messages[i])])
    ELSE <<m>>

\* the operators a message may register when the bridge is in use
Need(m) == Cardinality({i \in 1..Len(Flatten(m)) : Flatten(m)[i].t \in {"I", "G", "F"}})

(***************************************************************************)
(* The async context.  A task k = [w, stack, status, rename, dispatched]   *)
(* is the coroutine processing one top-level message: stack holds the      *)
(* remaining sub-messages of every active Batch.execute, innermost last.   *)
(* No handler awaits anything that suspends, so the task runs without the  *)
(* main context in between until it ends or spins in ChangeName's wait.    *)
(***************************************************************************)
\* a lock check that never takes the skip branch
NeverSkips == FALSE

\* the lock check of Image, Spritesheet and Frame: with no lock query the
\* attribute read raises and the except branch runs the update
Skips == has_lock_query /\ locked

\* Image.execute
ImageExecute(w, m) ==
    IF Skips
    THEN report(w, "WARNING", "UI is locked, image update skipped")
    ELSE update_image(w, [w |-> m.size[1], h |-> m.size[2], name |-> m.name,
                          frame |-> m.frame, pixels |-> m.data])

\* the sheet bitmap of Spritesheet.execute: h*count_y rows of w*count_x*4 bytes
ComposeSheet(size, count, blobs) ==
    LET w == size[1]
        h == size[2]
        stride == w * 4
    IN [r \in 1..(h * count[2]) |->
          [c \in 1..(stride * count[1]) |->
              LET y == (r - 1) \div h
                  x == (c - 1) \div stride
                  n == y * count[1] + x
              IN IF n < Len(blobs)
                 THEN Reshape(blobs[n + 1], h)[((r - 1) % h) + 1][((c - 1) % stride) + 1]
                 ELSE 0]]

\* Spritesheet.execute
SpritesheetExecute(w, m) ==
    LET count_x == CeilSqrt(m.length)
        count_y == CeilDiv(m.length, count_x)
        sheet_data == ComposeSheet(m.size, <<count_x, count_y>>, m.images)
    IN IF Skips
       THEN report(w, "WARNING", "UI is locked, image update skipped")
       ELSE update_spritesheet(w,
                [size |-> m.size, count |-> <<count_x, count_y>>, name |-> m.name,
                 start |-> m.start, frames |-> m.frames, tags |-> m.tags,
                 current_frame |-> m.current_frame, current_tag |-> m.current_tag,
                 pixels |-> sheet_data])

\* Frame.execute reaches util.update_frame unless the interface is locked;
\* util has no attribute update_frame, the except branch makes the same call,
\* and the AttributeError leaves execute
FrameRaises == ~Skips

\* Frame.execute while the interface is locked: the skip branch
FrameExecute(w, m) == report(w, "WARNING", "UI is locked, frame flip skipped")

\* re.search(r"\.(?:png|jpg|jpeg|bmp|tga)$", new_name)
IsRaster(name) ==
    \E ext \in {".png", ".jpg", ".jpeg", ".bmp", ".tga"} :
        /\ Len(name) >= Len(ext)
        /\ SubSeq(name, Len(name) - Len(ext) + 1, Len(name)) = ext

\* a wait that is left whatever the lock query returns
AlwaysProceed == TRUE

\* the condition under which ChangeName leaves its wait and mutates
RenameMayProceed == ~(has_lock_query /\ locked)

\* a rename that matches by tracked source only
RenamedBySourceOnly(imgs, old_name, new_name) ==
    [n \in DOMAIN imgs |->
        IF old_name = source_abs(imgs[n])
        THEN [source_set(imgs[n], new_name) EXCEPT
                 !.filepath = IF IsRaster(new_name) THEN new_name ELSE ""]
        ELSE imgs[n]]

\* the images of the document after ChangeName's for loop
Renamed(imgs, old_name, new_name) ==
    [n \in DOMAIN imgs |->
        IF old_name \in {source_abs(imgs[n]), imgs[n].filepath, n}
        THEN [source_set(imgs[n], new_name) EXCEPT
                 !.filepath = IF IsRaster(new_name) THEN new_name ELSE ""]
        ELSE imgs[n]]

\* ChangeName.execute after the wait: the for loop over bpy.data.images
ChangeNameExecute(w, m) ==
    [w EXCEPT !.h.images = Renamed(@, m.old_name, m.new_name)]

\* one step of the task: the dispatcher's process(m) for the next message of
\* the innermost Batch.execute, or the return of that loop.  Neither process
\* nor the loop of Batch.execute has a try: an exception leaving a handler's
\* execute unwinds every Batch.execute awaiting it and ends the task
TaskStep(k) ==
    LET top  == k.stack[Len(k.stack)]
        m    == Head(top)
        rest == [k.stack EXCEPT ![Len(k.stack)] = Tail(@)]
        k1   == [k EXCEPT !.stack = rest, !.dispatched = Append(@, m)]
    IN IF k.status = "rename"
       THEN [k EXCEPT !.w = ChangeNameExecute(k.w, k.rename), !.status = "running",
                      !.rename = None]
       ELSE IF top = <<>>
       THEN [k EXCEPT !.stack = SubSeq(@, 1, Len(@) - 1),
                      !.status = IF Len(k.stack) = 1 THEN "done" ELSE "running"]
       ELSE CASE m.t = "[" -> [k1 EXCEPT !.stack = Append(@, m.messages)]
              [] m.t = "I" -> [k1 EXCEPT !.w = ImageExecute(k.w, m)]
              [] m.t = "G" -> [k1 EXCEPT !.w = SpritesheetExecute(k.w, m)]
              [] m.t = "F" ->
                    IF ~FrameRaises THEN [k1 EXCEPT !.w = FrameExecute(k.w, m)]
                    ELSE [k1 EXCEPT !.stack = <<>>, !.status = "failed"]
              [] m.t = "C" -> [k1 EXCEPT !.status = "rename", !.rename = m]

\* the task stands still: it has ended, or it is in ChangeName's wait with the
\* interface locked
Halted(k) ==
    \/ k.status \in {"done", "failed"}
    \/ k.status = "rename" /\ ~RenameMayProceed

RECURSIVE RunTask(_)
RunTask(k) == IF Halted(k) THEN k ELSE RunTask(TaskStep(k))

SetTask(k) ==
    /\ SetWorld(k.w)
    /\ stack' = k.stack
    /\ status' = k.status
    /\ rename' = k.rename
    /\ dispatched' = k.dispatched

\* the dispatcher takes the next top-level message off the connection and
\* processes it
Receive(m) ==
    /\ status = "idle"
    /\ yielded
    /\ m \in TopMessages
    /\ Bridged => timers + Need(m) <= MaxTimers
    /\ SetTask(RunTask([w |-> World, stack |-> <<<<m>>>>, status |-> "running",
                        rename |-> None, dispatched |-> <<>>]))
    /\ cur' = m
    /\ yielded' = FALSE
    /\ polled' = FALSE
    /\ UNCHANGED <<locked, has_lock_query, window, skip_modal>>

\* the task of the top-level message has ended, by return or by an exception:
\* the event loop has the thread again and waits for the next message
TaskDone ==
    /\ status \in {"done", "failed"}
    /\ status' = "idle"
    /\ yielded' = TRUE
    /\ cur' = None
    /\ dispatched' = <<>>
    /\ polled' = FALSE
    /\ UNCHANGED <<images, actions, locked, has_lock_query, window, skip_modal,
                   update_image_args, update_spritesheet_args, ops, timers, last_report,
                   stack, rename>>

\* whether an iteration of the polling loop hands control to the event loop:
\* asyncio.sleep(0.1) is called but not awaited
PollYields == FALSE

\* one iteration of ChangeName's while loop: the interface is locked
ChangeNamePoll ==
    /\ status = "rename"
    /\ has_lock_query /\ locked
    /\ Bridged => timers < MaxTimers
    /\ SetWorld(report(World, "WARNING",
                       "UI is locked, waiting to update image source.."))
    /\ polled' = TRUE
    /\ yielded' = PollYields
    /\ UNCHANGED <<locked, has_lock_query, window, skip_modal, stack, status, rename,
                   cur, dispatched>>

(***************************************************************************)
(* The document at start                                                   *)
(***************************************************************************)
\* an image the user has set up: one that is not packed has no pixel data yet
\* (its load path, if any, names the sprite file, which the host cannot load)
InitImage(source, filepath, packed) ==
    [NewImage(1, 2) EXCEPT !.source = source, !.filepath = filepath,
                           !.packed = packed, !.has_data = packed]

\* the documents at start: two images "a" and "b" whose identities differ
Document(a, b) == [n \in {"a", "b"} |-> IF n = "a" THEN a ELSE b]

InitDocuments ==
    {\* each image tracks its own sprite file
     Document(InitImage("/p.ase", "", TRUE), InitImage("/q.ase", "", TRUE)),
     \* "b" is a packed copy that still carries the sprite file as its load path
     Document(InitImage("/p.ase", "", TRUE), InitImage("", "/p.ase", TRUE)),
     \* "b" is set up by load path only and has no pixel data yet
     Document(InitImage("", "", TRUE), InitImage("", "/p.ase", FALSE)),
     \* no image has anything to do with the sprite file
     Document(InitImage("", "", TRUE), InitImage("", "", TRUE))}

\* no function is under study
FnIdle ==
    /\ input = None
    /\ output = None
    /\ applied = FALSE

\* the sync state standing still: a bridged host with the lock query, the
\* interface unlocked, and one document
SyncIdle ==
    /\ images = Document(InitImage("/p.ase", "", TRUE), InitImage("/q.ase", "", TRUE))
    /\ actions = <<>>
    /\ locked = FALSE
    /\ has_lock_query = TRUE
    /\ window = TRUE
    /\ skip_modal = FALSE
    /\ update_image_args = None
    /\ update_spritesheet_args = None
    /\ ops = <<>>
    /\ timers = 0
    /\ last_report = None
    /\ stack = <<>>
    /\ status = "idle"
    /\ rename = None
    /\ yielded = TRUE
    /\ cur = None
    /\ dispatched = <<>>
    /\ polled = FALSE

\* no reference image is in the scene
RefIdle ==
    /\ ref_images = <<>>
    /\ ref_objects = <<>>
    /\ reloads = <<>>

\* no object is being rigged
RigIdle ==
    /\ rig_obj = None
    /\ rig_images = <<>>
    /\ rig_actions = <<>>
    /\ rig_dialog = FALSE
    /\ rig_result = None
    /\ rig_log = <<>>

\* the tooling of the 3D view is not in use
\* the action preview is not in use
PreviewIdle ==
    /\ scene = [action_preview |-> NoName, action_preview_enabled |-> FALSE,
                use_preview_range |-> FALSE, frame_preview |-> <<1, 250>>]
    /\ objects = <<>>
    /\ active_object = NoName
    /\ subscriptions = <<>>
    /\ notified = FALSE
    /\ last_action = ""

UiIdle == RefIdle /\ RigIdle /\ PreviewIdle

\* the pencil tool is not in use
PencilIdle ==
    /\ session = "none"
    /\ tool = None
    /\ is_drawing = FALSE
    /\ last_px = <<-1, -1>>
    /\ canvas = None
    /\ draw_handlers = 0
    /\ log = None

Init ==
    /\ images \in InitDocuments
    /\ actions = <<>>
    /\ locked = FALSE
    /\ has_lock_query \in BOOLEAN
    /\ window \in BOOLEAN
    /\ skip_modal \in BOOLEAN
    /\ update_image_args = None
    /\ update_spritesheet_args = None
    /\ ops = <<>>
    /\ timers = 0
    /\ last_report = None
    /\ stack = <<>>
    /\ status = "idle"
    /\ rename = None
    /\ yielded = TRUE
    /\ cur = None
    /\ dispatched = <<>>
    /\ polled = FALSE
    /\ FnIdle
    /\ PencilIdle
    /\ UiIdle

Next ==
    \/ \E m \in TopMessages : Receive(m) /\ UNCHANGED <<fn_vars, pencil_vars, ui_vars>>
    \/ TaskDone /\ UNCHANGED <<fn_vars, pencil_vars, ui_vars>>
    \/ ChangeNamePoll /\ UNCHANGED <<fn_vars, pencil_vars, ui_vars>>
    \/ \E i \in 1..MaxTimers : TimerEvent(i) /\ UNCHANGED <<fn_vars, pencil_vars, ui_vars>>
    \/ \E i \in 1..MaxTimers : OtherEvent(i) /\ UNCHANGED <<fn_vars, pencil_vars, ui_vars>>
    \/ \E v \in BOOLEAN : SetLocked(v) /\ UNCHANGED <<fn_vars, pencil_vars, ui_vars>>

Spec == Init /\ [][Next]_vars

(***************************************************************************)
(* The drawing tool of draw.py                                             *)
(***************************************************************************)
Abs(n) == IF n < 0 THEN -n ELSE n

\* the for loop of line: i steps are taken, d = [n, dx, dy, major, minor,
\* x_major] are the loop's constants, pk the error term
RECURSIVE LineLoop(_, _, _, _, _)
LineLoop(x, y, pk, i, d) ==
    IF i >= d.n THEN <<>>
    ELSE LET turn == ~(pk < 0)
             x1 == IF d.x_major \/ turn THEN x + d.dx ELSE x
             y1 == IF ~d.x_major \/ turn THEN y + d.dy ELSE y
             pk1 == IF turn THEN pk + 2 * d.minor - 2 * d.major ELSE pk + 2 * d.minor
         IN <<<<x1, y1>>>> \o LineLoop(x1, y1, pk1, i + 1, d)

\* a line that stops at its first point
LineFirstPoint(x1, y1, x2, y2) == <<<<x1, y1>>>>

\* line(x1, y1, x2, y2): the points the generator yields, in order
line(x1, y1, x2, y2) ==
    LET w == x2 - x1
        w_abs == Abs(w)
        h == y2 - y1
        h_abs == Abs(h)
        dx == IF w < 0 THEN -1 ELSE 1
        dy == IF h < 0 THEN -1 ELSE 1
    IN IF w_abs > h_abs
       THEN <<<<x1, y1>>>> \o
            LineLoop(x1, y1, 2 * h_abs - w_abs, 0,
                     [n |-> w_abs, dx |-> dx, dy |-> dy, major |-> w_abs,
                      minor |-> h_abs, x_major |-> TRUE])
       ELSE <<<<x1, y1>>>> \o
            LineLoop(x1, y1, 2 * w_abs - h_abs, 0,
                     [n |-> h_abs, dx |-> dx, dy |-> dy, major |-> h_abs,
                      minor |-> w_abs, x_major |-> FALSE])

\* arithmetic on channel values, kept as exact fractions <<p, q>> in lowest
\* terms with q > 0 (the rounding of floats is left out)
Zero == Rat(0, 1)
One == Rat(1, 1)
RAdd(a, b) == Rat(a[1] * b[2] + b[1] * a[2], a[2] * b[2])
RSub(a, b) == Rat(a[1] * b[2] - b[1] * a[2], a[2] * b[2])
RMul(a, b) == Rat(a[1] * b[1], a[2] * b[2])
RDiv(a, b) == IF b[1] > 0 THEN Rat(a[1] * b[2], a[2] * b[1])
              ELSE Rat(-(a[1] * b[2]), a[2] * (-b[1]))

\* channel values and pixels in use
Half == Rat(1, 2)
Clear == <<Zero, Zero, Zero, Zero>>
White == <<One, One, One, One>>
Glass == <<Zero, One, Half, Half>>

\* pix[addr] of a pixel array of n floats: the 1-based position, a negative
\* index counting from the end; 0 when Python raises IndexError
PixIndex(addr, n) ==
    IF 0 <= addr /\ addr < n THEN addr + 1
    ELSE IF -n <= addr /\ addr < 0 THEN addr + n + 1
    ELSE 0

\* the canvas a draw function works on: img.pixels, img.size[0], and whether
\* an exception has left the function
Canvas(pix, width) == [pix |-> pix, width |-> width, raised |-> FALSE]

\* draw_replace(img, dots, color, replace_alpha=...)
RECURSIVE draw_replace(_, _, _, _)
draw_replace(img, dots, color, replace_alpha) ==
    IF dots = <<>> \/ img.raised THEN img
    ELSE LET x == Head(dots)[1]
             y == Head(dots)[2]
             addr == 4 * (img.width * y + x)
             k == PixIndex(addr, Len(img.pix))
             pix1 == [img.pix EXCEPT ![k] = color[1], ![k + 1] = color[2],
                                     ![k + 2] = color[3],
                                     ![k + 3] = IF replace_alpha THEN color[4] ELSE @]
         IN IF k = 0 THEN [img EXCEPT !.raised = TRUE]
            ELSE draw_replace([img EXCEPT !.pix = pix1], Tail(dots), color, replace_alpha)

\* the for loop of draw_alpha
RECURSIVE AlphaLoop(_, _, _)
AlphaLoop(img, dots, color) ==
    IF dots = <<>> \/ img.raised THEN img
    ELSE LET x == Head(dots)[1]
             y == Head(dots)[2]
             addr == 4 * (img.width * y + x)
             k == PixIndex(addr, Len(img.pix))
             a == color[4]
             da == RMul(a, RSub(One, img.pix[k + 3]))
             outa == RAdd(img.pix[k + 3], da)
             ch(c) == RDiv(RAdd(RMul(img.pix[k + c], a), RMul(color[c + 1], da)), outa)
             pix1 == [img.pix EXCEPT ![k] = ch(0), ![k + 1] = ch(1), ![k + 2] = ch(2),
                                     ![k + 3] = outa]
         IN IF k = 0 \/ outa = Zero THEN [img EXCEPT !.raised = TRUE]
            ELSE AlphaLoop([img EXCEPT !.pix = pix1], Tail(dots), color)

\* compositing without the test of the colour's alpha
AlphaUnguarded(img, dots, color) == AlphaLoop(img, dots, color)

\* draw_alpha(img, dots, color)
draw_alpha(img, dots, color) ==
    IF color[4] = Zero THEN img ELSE AlphaLoop(img, dots, color)

\* a simple mode that composites whatever the colour's alpha is
CompositeAlways(img, dots, color) == draw_alpha(img, dots, color)

\* draw_simple(img, dots, color)
draw_simple(img, dots, color) ==
    IF color[4] = One THEN draw_replace(img, dots, color, TRUE)
    ELSE IF color[4] = Zero THEN draw_replace(img, dots, <<Zero, Zero, Zero, Zero>>, TRUE)
    ELSE draw_alpha(img, dots, color)

\* the result of cast_ray when the ray misses the object
NoHit == <<>>

\* the pixel cells a ray can hit: those of the image
Hits(img) ==
    {<<x, y>> : x \in 0..(img.width - 1),
                y \in 0..((Len(img.pix) \div (4 * img.width)) - 1)}

\* the paint of modal's MOUSEMOVE branch: the line from last_px to the cell
\* under the pointer, in the mode of the button that started the session
Paint(img, from, to) ==
    LET color == IF tool.draw_with_bg THEN tool.bg ELSE tool.fg
        mode  == IF tool.draw_with_bg THEN tool.bg_mode ELSE tool.fg_mode
        dots  == line(from[1], from[2], to[1], to[2])
    IN CASE mode = "SIMPLE" -> draw_simple(img, dots, color)
         [] mode = "ALPHA"  -> draw_alpha(img, dots, color)
         [] mode = "COPY"   -> draw_replace(img, dots, color, TRUE)
         [] mode = "LOCK"   -> draw_replace(img, dots, color, FALSE)

\* SB_OT_pencil.modal for a press of a mouse button
ModalPress(hit) ==
    /\ is_drawing' = TRUE
    /\ last_px' = IF hit # NoHit THEN hit ELSE last_px
    /\ UNCHANGED <<canvas, draw_handlers>>

\* SB_OT_pencil.invoke with the event of the tool's keymap, the press of the
\* left button or, with draw_with_bg set, of the right one
Invoke(with_bg, hit) ==
    /\ session = "none"
    /\ hit \in Hits(canvas) \cup {NoHit}
    /\ tool' = [tool EXCEPT !.draw_with_bg = with_bg]
    /\ is_drawing' = TRUE
    /\ last_px' = IF hit # NoHit THEN hit ELSE <<-1, -1>>
    /\ draw_handlers' = draw_handlers + 1
    /\ session' = "modal"
    /\ log' = [log EXCEPT !.attached = @ + 1]
    /\ UNCHANGED <<canvas, sync_vars, fn_vars, ui_vars>>

\* modal, MOUSEMOVE: the preview follows the pointer and, while drawing, the
\* cells from last_px to the one under the pointer are painted.  An exception
\* of a pixel write leaves modal, and the host ends the operator as it is
MouseMove(hit) ==
    /\ session = "modal"
    /\ log.events < MaxEvents
    /\ hit \in Hits(canvas) \cup {NoHit}
    /\ IF hit # NoHit /\ is_drawing /\ hit # last_px
       THEN LET img == Paint(canvas, last_px, hit)
            IN /\ canvas' = [img EXCEPT !.raised = FALSE]
               /\ last_px' = IF img.raised THEN last_px ELSE hit
               /\ session' = IF img.raised THEN "ended" ELSE session
               /\ log' = [log EXCEPT !.events = @ + 1,
                                     !.ended_by = IF img.raised THEN "exception" ELSE @]
       ELSE /\ UNCHANGED <<canvas, last_px, session>>
            /\ log' = [log EXCEPT !.events = @ + 1]
    /\ UNCHANGED <<tool, is_drawing, draw_handlers, sync_vars, fn_vars, ui_vars>>

\* modal, LEFTMOUSE or RIGHTMOUSE with value PRESS
Press(hit) ==
    /\ session = "modal"
    /\ log.events < MaxEvents
    /\ hit \in Hits(canvas) \cup {NoHit}
    /\ ModalPress(hit)
    /\ log' = [log EXCEPT !.events = @ + 1]
    /\ UNCHANGED <<session, tool, sync_vars, fn_vars, ui_vars>>

\* modal, LEFTMOUSE or RIGHTMOUSE with value RELEASE: the session is over
Release ==
    /\ session = "modal"
    /\ is_drawing' = FALSE
    /\ draw_handlers' = draw_handlers - 1
    /\ session' = "ended"
    /\ log' = [log EXCEPT !.detached = @ + 1, !.ended_by = "release"]
    /\ UNCHANGED <<tool, last_px, canvas, sync_vars, fn_vars, ui_vars>>

\* the tool's properties: each mode is the foreground's or the background's
\* in one of them
PencilTools ==
    {[fg |-> <<One, Zero, Zero, One>>, fg_mode |-> "SIMPLE",
      bg |-> <<Zero, Zero, One, Half>>, bg_mode |-> "ALPHA", draw_with_bg |-> FALSE],
     [fg |-> <<One, Half, Zero, Zero>>, fg_mode |-> "COPY",
      bg |-> <<Zero, One, Zero, One>>, bg_mode |-> "LOCK", draw_with_bg |-> FALSE]}

\* the images painted on: 2 x 2 pixels, and a strip of 2 x 1
PencilCanvases ==
    {Canvas(White \o Glass \o Clear \o Glass, 2), Canvas(White \o Glass, 2)}

PencilInit ==
    /\ SyncIdle
    /\ FnIdle
    /\ UiIdle
    /\ session = "none"
    /\ tool \in PencilTools
    /\ is_drawing = FALSE
    /\ last_px = <<-1, -1>>
    /\ canvas \in PencilCanvases
    /\ draw_handlers = 0
    /\ log = [attached |-> 0, detached |-> 0, events |-> 0, ended_by |-> "nothing"]

PencilNext ==
    \/ \E with_bg \in BOOLEAN, hit \in Hits(canvas) \cup {NoHit} : Invoke(with_bg, hit)
    \/ \E hit \in Hits(canvas) \cup {NoHit} : MouseMove(hit)
    \/ \E hit \in Hits(canvas) \cup {NoHit} : Press(hit)
    \/ Release

PencilSpec == PencilInit /\ [][PencilNext]_vars

(***************************************************************************)
(* Reference images of ui_3d.py                                            *)
(***************************************************************************)
\* ui_3d.scale_image: the w * h pixels are read as an array of shape (w, h, 4),
\* each entry is repeated scale times along the first two axes, and the
\* ravelled result becomes the pixels of the image resized to w*scale x h*scale
scale_image(image, scale) ==
    LET w  == image.size[1]
        h  == image.size[2]
        px == image.pixels
    IN [image EXCEPT
          !.size = <<w * scale, h * scale>>,
          !.pixels = [i \in 1..(w * scale * h * scale * 4) |->
                        LET j == (i - 1) \div 4
                            a == (j \div (h * scale)) \div scale
                            b == (j % (h * scale)) \div scale
                        IN px[(a * h + b) * 4 + ((i - 1) % 4) + 1]]]

\* the image files references are loaded from, by size
RefFiles == {<<1, 1>>, <<2, 1>>, <<1, 2>>}

\* bpy.data.images.load: the pixels of a file of w x h pixels, each telling
\* its place
LoadFile(file) ==
    [size |-> file, pixels |-> [i \in 1..(file[1] * file[2] * 4) |-> Rat(i, 255)]]

\* a reload that keeps the size and the pixels the image has
ReloadKeepsBuffer(image) == image

\* image.reload(): size and pixels are the file's again
image_reload(image) ==
    [image EXCEPT !.size = LoadFile(image.file).size,
                  !.pixels = LoadFile(image.file).pixels]

\* SB_OT_reference_add.execute: the image is loaded, scaled, its prescale
\* recorded, and an empty object is added with the image as its data
ReferenceAdd(file, scale) ==
    /\ Len(ref_objects) < MaxRefs
    /\ LET id    == Len(ref_images) + 1
           image == scale_image(LoadFile(file) @@ [file |-> file, prescale |-> 0], scale)
       IN /\ ref_images' = Append(ref_images, [image EXCEPT !.prescale = scale])
          /\ ref_objects' = Append(ref_objects, id)
          /\ reloads' = Append(reloads, 0)
    /\ UNCHANGED <<sync_vars, fn_vars, pencil_vars, rig_vars, preview_vars>>

\* the user duplicates reference object o with its data linked: the new object
\* shows the same image
DuplicateLinked(o) ==
    /\ Len(ref_objects) < MaxRefs
    /\ ref_objects' = Append(ref_objects, ref_objects[o])
    /\ UNCHANGED <<ref_images, reloads, sync_vars, fn_vars, pencil_vars, rig_vars, preview_vars>>

\* image.reload() and scale_image(image, image.sb_props.prescale) for the
\* image of each object of the sequence os, in order
RECURSIVE ReloadEach(_, _)
ReloadEach(imgs, os) ==
    IF os = <<>> THEN imgs
    ELSE LET id == Head(os)
         IN ReloadEach([imgs EXCEPT ![id] = scale_image(image_reload(@), @.prescale)],
                       Tail(os))

\* how often image id occurs among the objects os
Uses(os, id) == Cardinality({k \in 1..Len(os) : os[k] = id})

\* SB_OT_reference_reload.execute with context.object = o
ReferenceReload(o) ==
    /\ reloads[ref_objects[o]] < MaxReloads
    /\ ref_images' = ReloadEach(ref_images, <<ref_objects[o]>>)
    /\ reloads' = [reloads EXCEPT ![ref_objects[o]] = @ + 1]
    /\ UNCHANGED <<ref_objects, sync_vars, fn_vars, pencil_vars, rig_vars, preview_vars>>

\* SB_OT_reference_reload_all.execute: every image-backed empty, in order
ReferenceReloadAll ==
    /\ ref_objects # <<>>
    /\ \A id \in 1..Len(ref_images) : reloads[id] + Uses(ref_objects, id) <= MaxReloads
    /\ ref_images' = ReloadEach(ref_images, ref_objects)
    /\ reloads' = [id \in 1..Len(reloads) |-> reloads[id] + Uses(ref_objects, id)]
    /\ UNCHANGED <<ref_objects, sync_vars, fn_vars, pencil_vars, rig_vars, preview_vars>>

ReferenceInit ==
    /\ SyncIdle
    /\ FnIdle
    /\ PencilIdle
    /\ RefIdle
    /\ RigIdle
    /\ PreviewIdle

ReferenceNext ==
    \/ \E file \in RefFiles, scale \in 1..MaxScale : ReferenceAdd(file, scale)
    \/ \E o \in 1..Len(ref_objects) : DuplicateLinked(o)
    \/ \E o \in 1..Len(ref_objects) : ReferenceReload(o)
    \/ ReferenceReloadAll

ReferenceSpec == ReferenceInit /\ [][ReferenceNext]_vars

(***************************************************************************)
(* Sprite-sheet rig of ui_3d.py                                            *)
(***************************************************************************)
\* util.unique_name: the name itself when it is free, otherwise the name with
\* the first free numeric suffix
unique_name(name, taken) ==
    IF name \notin taken THEN name
    ELSE IF (name \o ".001") \notin taken THEN name \o ".001"
    ELSE IF (name \o ".002") \notin taken THEN name \o ".002"
    ELSE name \o ".003"

\* obj.sb_props.animations_new(name): a binding entry is appended
animations_new(obj, name) ==
    [obj EXCEPT !.animations = Append(@, [name |-> name, image |-> NoName,
                                          prop_name |-> NoName])]

\* the data path of the offset of the modifier named after the property
OffsetPath(prop_name) == "modifiers[\"" \o prop_name \o "\"].offset"

\* util.update_sheet_animation(anim): the offset of the binding's modifier is
\* driven from the binding's property
update_sheet_animation(obj, prop_name) ==
    [obj EXCEPT !.drivers = @ \o
        <<[data_path |-> OffsetPath(prop_name), array_index |-> 0],
          [data_path |-> OffsetPath(prop_name), array_index |-> 1]>>]

\* the names of the object's bindings
BindingNames(obj) == {obj.animations[k].name : k \in 1..Len(obj.animations)}

\* the names of the object's modifiers
ModifierNames(obj) == {obj.modifiers[k].name : k \in 1..Len(obj.modifiers)}

\* next((img for img in bpy.data.images if img.sb_props.sheet), False)
HasSheetImage(imgs) == \E n \in DOMAIN imgs : imgs[n].sheet # NoName

\* SB_OT_spritesheet_rig.poll for the active object, a selected mesh
rig_poll(imgs) == HasSheetImage(imgs)

\* an invoke that opens the dialog whatever the document holds
InvokeOpensDialog(obj, imgs) == [result |-> "DIALOG", report |-> None]

\* SB_OT_spritesheet_rig.invoke
rig_invoke(obj, imgs) ==
    IF ~HasSheetImage(imgs)
    THEN [result |-> "CANCELLED",
          report |-> [type |-> "ERROR", message |-> "No animations in the current blendfile"]]
    ELSE IF obj.uv_layers = <<>>
    THEN [result |-> "CANCELLED",
          report |-> [type |-> "ERROR",
                      message |-> "THe object must have at least one UV map"]]
    ELSE [result |-> "DIALOG", report |-> None]

\* the name property of the operator: what was typed goes through the setter,
\* and with nothing typed the getter suggests a name
rig_name(obj, typed) ==
    IF typed # "" THEN unique_name(typed, BindingNames(obj))
    ELSE unique_name("Sprite Frame", BindingNames(obj))

\* the curve repair of execute: every action of the sprite gets a curve for
\* the property path unless it has one
RepairCurves(acts, image, prop_path) ==
    [a \in DOMAIN acts |->
        IF acts[a].sprite = image /\ prop_path \notin acts[a].fcurves
        THEN [acts[a] EXCEPT !.fcurves = @ \cup {prop_path}]
        ELSE acts[a]]

\* the property name without the search for a free one
PlainFrameProp(obj, image) == "Frame " \o image

\* prop_name of execute: "Frame <image>", made unique among what the object holds
FrameProp(obj, image) == unique_name("Frame " \o image, DOMAIN obj.props)

\* SB_OT_spritesheet_rig.execute on the object
rig_execute(obj, imgs, acts, typed, image, act, uv_map) ==
    LET start     == imgs[imgs[image].sheet].sheet_start
        prop_name == FrameProp(obj, image)
        name      == rig_name(obj, typed)
        obj1 == animations_new(obj, name)
        k    == Len(obj1.animations)
        obj2 == [obj1 EXCEPT !.animations[k].image = image,
                             !.animations[k].prop_name = prop_name,
                             !.animation_index = k - 1]
        obj3 == IF prop_name \notin DOMAIN obj2.props
                THEN [obj2 EXCEPT !.props = (prop_name :> start) @@ @]
                ELSE obj2
        obj4 == [obj3 EXCEPT !.rna_ui = [present |-> TRUE, keys |-> @.keys \cup {prop_name}]]
        obj5 == IF prop_name \notin ModifierNames(obj4)
                THEN [obj4 EXCEPT !.modifiers =
                         Append(@, [name |-> prop_name, type |-> "UV_WARP",
                                    uv_layer |-> "", center |-> <<0, 0>>])]
                ELSE obj4
        m    == CHOOSE i \in 1..Len(obj5.modifiers) : obj5.modifiers[i].name = prop_name
        obj6 == [obj5 EXCEPT !.modifiers[m].uv_layer =
                                 IF uv_map = "__none__" THEN "" ELSE uv_map,
                             !.modifiers[m].center = <<0, 1>>]
        obj7 == update_sheet_animation(obj6, prop_name)
    IN [obj7 EXCEPT !.action = IF act # "__none__" /\ act \in DOMAIN acts
                               THEN act ELSE @]

\* SB_OT_spritesheet_unrig.poll for the active object, which is selected
unrig_poll(obj) ==
    obj.animation_index + 1 \in 1..Len(obj.animations)

\* the driver loop of unrig: the drivers are walked link by link and a driver
\* of the path is removed while the walk stands on it.  The walk then reads
\* its next link from the driver just freed; after_free is what that read
\* gives: "next" the link as it was, "end" no link, "crash" no valid memory
RECURSIVE RemoveDrivers(_, _, _, _)
RemoveDrivers(drivers, i, path, after_free) ==
    IF i > Len(drivers) THEN [drivers |-> drivers, crashed |-> FALSE]
    ELSE IF drivers[i].data_path = path
    THEN CASE after_free = "next"  -> RemoveDrivers(Remove(drivers, i), i, path, after_free)
           [] after_free = "end"   -> [drivers |-> Remove(drivers, i), crashed |-> FALSE]
           [] after_free = "crash" -> [drivers |-> Remove(drivers, i), crashed |-> TRUE]
    ELSE RemoveDrivers(drivers, i + 1, path, after_free)

\* what the read of a freed link may give
AfterFree == {"next", "end", "crash"}

\* obj.sb_props.animations_remove(anim): the binding entry leaves the list
animations_remove(obj, k) == [obj EXCEPT !.animations = Remove(@, k)]

\* obj.modifiers.remove(obj.modifiers[prop_name]): the first modifier of the name
RemoveModifier(modifiers, prop_name) ==
    IF \E k \in 1..Len(modifiers) : modifiers[k].name = prop_name
    THEN LET first == CHOOSE k \in 1..Len(modifiers) :
                         /\ modifiers[k].name = prop_name
                         /\ \A j \in 1..(k - 1) : modifiers[j].name # prop_name
         IN Remove(modifiers, first)
    ELSE modifiers

\* SB_OT_spritesheet_unrig.execute on the object, after the driver loop
unrig_execute(obj, drivers) ==
    LET k         == obj.animation_index + 1
        prop_name == obj.animations[k].prop_name
        obj1 == [obj EXCEPT !.drivers = drivers]
        obj2 == IF obj1.rna_ui.present /\ prop_name \in obj1.rna_ui.keys
                THEN [obj1 EXCEPT !.rna_ui.keys = @ \ {prop_name}]
                ELSE obj1
        obj3 == IF prop_name \in DOMAIN obj2.props
                THEN [obj2 EXCEPT !.props = [p \in DOMAIN @ \ {prop_name} |-> @[p]]]
                ELSE obj2
        obj4 == [obj3 EXCEPT !.modifiers = RemoveModifier(@, prop_name)]
    IN animations_remove(obj4, k)

\* the host is alive
HostRuns == rig_result.result # "CRASHED"

\* the unrig operator is run from the panel on the active binding
RigUnrig(after_free) ==
    /\ HostRuns
    /\ ~rig_dialog
    /\ unrig_poll(rig_obj)
    /\ LET k == rig_obj.animation_index + 1
           w == RemoveDrivers(rig_obj.drivers, 1,
                              OffsetPath(rig_obj.animations[k].prop_name), after_free)
       IN IF w.crashed
          THEN /\ rig_obj' = [rig_obj EXCEPT !.drivers = w.drivers]
               /\ rig_result' = [rig_result EXCEPT !.result = "CRASHED", !.report = None]
               /\ UNCHANGED rig_log
          ELSE /\ rig_obj' = unrig_execute(rig_obj, w.drivers)
               /\ rig_result' = [rig_result EXCEPT !.result = "FINISHED", !.report = None]
               /\ rig_log' = Remove(rig_log, k)
    /\ UNCHANGED <<rig_images, rig_actions, rig_dialog>>
    /\ UNCHANGED <<sync_vars, fn_vars, pencil_vars, ref_vars, preview_vars>>

\* the user picks a binding in the list of the panel
RigSelect(k) ==
    /\ HostRuns
    /\ ~rig_dialog
    /\ k - 1 # rig_obj.animation_index
    /\ rig_obj' = [rig_obj EXCEPT !.animation_index = k - 1]
    /\ UNCHANGED <<rig_images, rig_actions, rig_dialog, rig_result, rig_log>>
    /\ UNCHANGED <<sync_vars, fn_vars, pencil_vars, ref_vars, preview_vars>>

\* the operator is asked for while its poll fails: the host refuses it
RigRefused ==
    /\ HostRuns
    /\ ~rig_dialog
    /\ ~rig_poll(rig_images)
    /\ rig_result.calls < MaxRigCalls
    /\ rig_result' = [calls |-> rig_result.calls + 1, result |-> "POLL_FAILED",
                      report |-> None]
    /\ UNCHANGED <<rig_obj, rig_images, rig_actions, rig_dialog, rig_log>>
    /\ UNCHANGED <<sync_vars, fn_vars, pencil_vars, ref_vars, preview_vars>>

\* the operator is started from the panel: poll, then invoke
RigInvoke ==
    /\ HostRuns
    /\ ~rig_dialog
    /\ rig_poll(rig_images)
    /\ rig_result.calls < MaxRigCalls
    /\ LET r == rig_invoke(rig_obj, rig_images)
       IN /\ rig_result' = [calls |-> rig_result.calls + 1,
                            result |-> IF r.result = "DIALOG" THEN "RUNNING_MODAL"
                                       ELSE r.result,
                            report |-> r.report]
          /\ rig_dialog' = (r.result = "DIALOG")
    /\ UNCHANGED <<rig_obj, rig_images, rig_actions, rig_log>>
    /\ UNCHANGED <<sync_vars, fn_vars, pencil_vars, ref_vars, preview_vars>>

\* the dialog is confirmed with the properties chosen in it: execute
RigConfirm(typed, image, act, uv_map) ==
    /\ rig_dialog
    /\ rig_images[image].sheet # NoName
    /\ act = "__none__" \/ (act \in DOMAIN rig_actions /\ rig_actions[act].sprite = image)
    /\ uv_map = "__none__" \/ \E k \in 1..Len(rig_obj.uv_layers) : rig_obj.uv_layers[k] = uv_map
    /\ rig_obj' = rig_execute(rig_obj, rig_images, rig_actions, typed, image, act, uv_map)
    /\ rig_actions' = RepairCurves(rig_actions, image,
                          "[\"" \o FrameProp(rig_obj, image) \o "\"]")
    /\ rig_dialog' = FALSE
    /\ rig_result' = [rig_result EXCEPT !.result = "FINISHED", !.report = None]
    /\ rig_log' = Append(rig_log, [image |-> image, name |-> typed])
    /\ UNCHANGED rig_images
    /\ UNCHANGED <<sync_vars, fn_vars, pencil_vars, ref_vars, preview_vars>>

\* the dialog is dismissed
RigDismiss ==
    /\ rig_dialog
    /\ rig_dialog' = FALSE
    /\ rig_result' = [rig_result EXCEPT !.result = "CANCELLED", !.report = None]
    /\ UNCHANGED <<rig_obj, rig_images, rig_actions, rig_log>>
    /\ UNCHANGED <<sync_vars, fn_vars, pencil_vars, ref_vars, preview_vars>>

\* the sprite images of a document: none with a sheet, or "s" with its sheet
RigDocuments ==
    {"s" :> [sheet |-> NoName, sheet_start |-> 0],
     ("s" :> [sheet |-> "s [sheet]", sheet_start |-> 0]) @@
     ("s [sheet]" :> [sheet |-> NoName, sheet_start |-> 3])}

\* the mesh object before any rig, with the UV layers given
RigObject(uv_layers) ==
    [uv_layers |-> uv_layers, props |-> <<>>,
     rna_ui |-> [present |-> FALSE, keys |-> {}], modifiers |-> <<>>,
     animations |-> <<>>, animation_index |-> 0, action |-> "", drivers |-> <<>>]

RigInit ==
    /\ SyncIdle
    /\ FnIdle
    /\ PencilIdle
    /\ RefIdle
    /\ PreviewIdle
    /\ rig_obj \in {RigObject(<<>>), RigObject(<<"UVMap">>)}
    /\ rig_images \in RigDocuments
    /\ rig_actions \in {<<>>, "s" :> [sprite |-> "s", fcurves |-> {"[\"Sprite Frame\"]"}]}
    /\ rig_dialog = FALSE
    /\ rig_result = [calls |-> 0, result |-> "NONE", report |-> None]
    /\ rig_log = <<>>

RigNext ==
    \/ RigRefused
    \/ RigInvoke
    \/ \E typed \in {"", "walk"}, image \in DOMAIN rig_images,
          act \in {"__none__", "s"}, uv_map \in {"__none__", "UVMap"} :
             RigConfirm(typed, image, act, uv_map)
    \/ RigDismiss
    \/ \E after_free \in AfterFree : RigUnrig(after_free)
    \/ \E k \in 1..Len(rig_obj.animations) : RigSelect(k)

RigSpec == RigInit /\ [][RigNext]_vars

(***************************************************************************)
(* Action preview of ui_3d.py: the lock of the scene's preview range to    *)
(* the action of an object, and the msgbus callback that follows the       *)
(* object's animation data                                                 *)
(***************************************************************************)
\* action.frame_range of the actions of the document
FrameRange(a) ==
    CASE a = "idle" -> <<1, 4>>
      [] a = "walk" -> <<1, 8>>
      [] a = "run"  -> <<5, 9>>

\* the actions an object may be given; "" is no action
PreviewActions == {"", "idle", "walk", "run"}

\* bpy.msgbus.clear_by_owner(msgbus_anim_data_callback_owner)
clear_by_owner(subs) == <<>>

\* bpy.msgbus.subscribe_rna(key = the animation data of the object, ...)
subscribe_rna(subs, key) == Append(subs, key)

\* SB_OT_set_action_preview.poll
set_action_preview_poll ==
    /\ active_object # NoName
    /\ objects[active_object].type = "MESH"
    /\ objects[active_object].action # ""
    /\ active_object # scene.action_preview

\* SB_OT_set_action_preview.execute
SetActionPreview ==
    /\ set_action_preview_poll
    /\ scene' = [action_preview |-> active_object,
                 action_preview_enabled |-> TRUE,
                 use_preview_range |-> TRUE,
                 frame_preview |-> FrameRange(objects[active_object].action)]
    /\ subscriptions' = subscribe_rna(clear_by_owner(subscriptions), active_object)
    /\ notified' = FALSE
    /\ UNCHANGED <<objects, active_object, last_action>>
    /\ UNCHANGED <<sync_vars, fn_vars, pencil_vars, ref_vars, rig_vars>>

\* SB_OT_clear_action_preview.poll
clear_action_preview_poll == scene.action_preview_enabled /\ scene.use_preview_range

\* SB_OT_clear_action_preview.execute
ClearActionPreview ==
    /\ clear_action_preview_poll
    /\ scene' = [scene EXCEPT !.action_preview = NoName,
                              !.action_preview_enabled = FALSE,
                              !.use_preview_range = FALSE]
    /\ subscriptions' = clear_by_owner(subscriptions)
    /\ notified' = FALSE
    /\ UNCHANGED <<objects, active_object, last_action>>
    /\ UNCHANGED <<sync_vars, fn_vars, pencil_vars, ref_vars, rig_vars>>

\* the animation data of the object is subscribed to
Subscribed(subs, o) == \E k \in 1..Len(subs) : subs[k] = o

\* the user gives object o another action, or none: the subscriptions on its
\* animation data are notified
ChangeAction(o, a) ==
    /\ a # objects[o].action
    /\ objects' = [objects EXCEPT ![o].action = a]
    /\ notified' = (notified \/ Subscribed(subscriptions, o))
    /\ UNCHANGED <<scene, active_object, subscriptions, last_action>>
    /\ UNCHANGED <<sync_vars, fn_vars, pencil_vars, ref_vars, rig_vars>>

\* sb_msgbus_anim_data_callback, run for a notification
AnimDataCallback ==
    /\ notified
    /\ LET obj == scene.action_preview
       IN IF ~scene.use_preview_range \/ obj = NoName
          THEN /\ subscriptions' = clear_by_owner(subscriptions)
               /\ UNCHANGED <<scene, last_action>>
          ELSE IF objects[obj].action = ""
          THEN \* None has no name: the callback raises
               UNCHANGED <<scene, subscriptions, last_action>>
          ELSE \* an Action never equals the name kept in the global
               /\ last_action' = objects[obj].action
               /\ scene' = [scene EXCEPT !.frame_preview = FrameRange(objects[obj].action)]
               /\ UNCHANGED subscriptions
    /\ notified' = FALSE
    /\ UNCHANGED <<objects, active_object>>
    /\ UNCHANGED <<sync_vars, fn_vars, pencil_vars, ref_vars, rig_vars>>

\* the user makes another object the active one
SelectObject(o) ==
    /\ o # active_object
    /\ active_object' = o
    /\ UNCHANGED <<scene, objects, subscriptions, notified, last_action>>
    /\ UNCHANGED <<sync_vars, fn_vars, pencil_vars, ref_vars, rig_vars>>

\* the user switches the preview range of the timeline on or off
SetUsePreviewRange(v) ==
    /\ v # scene.use_preview_range
    /\ scene' = [scene EXCEPT !.use_preview_range = v]
    /\ UNCHANGED <<objects, active_object, subscriptions, notified, last_action>>
    /\ UNCHANGED <<sync_vars, fn_vars, pencil_vars, ref_vars, rig_vars>>

\* two meshes and a light, the active one a mesh
PreviewInit ==
    /\ SyncIdle
    /\ FnIdle
    /\ PencilIdle
    /\ RefIdle
    /\ RigIdle
    /\ scene = [action_preview |-> NoName, action_preview_enabled |-> FALSE,
                use_preview_range |-> FALSE, frame_preview |-> <<1, 250>>]
    /\ objects \in {("a" :> [type |-> "MESH", action |-> a]) @@
                     ("b" :> [type |-> "MESH", action |-> "walk"]) @@
                     ("lamp" :> [type |-> "LIGHT", action |-> "idle"]) : a \in {"", "idle"}}
    /\ active_object = "a"
    /\ subscriptions = <<>>
    /\ notified = FALSE
    /\ last_action = ""

PreviewNext ==
    \/ SetActionPreview
    \/ ClearActionPreview
    \/ \E o \in DOMAIN objects, a \in PreviewActions : ChangeAction(o, a)
    \/ AnimDataCallback
    \/ \E o \in DOMAIN objects : SelectObject(o)
    \/ \E v \in BOOLEAN : SetUsePreviewRange(v)

PreviewSpec == PreviewInit /\ [][PreviewNext]_vars

(***************************************************************************)
(* The functions by themselves.  In this specification a state is one      *)
(* application: input holds the function's name and arguments, drawn from  *)
(* bounded sets, and the one step applies the function and keeps what it   *)
(* returned in output.  The sync state stands still.                       *)
(***************************************************************************)
\* the step applies function f
Applies(f) ==
    /\ ~applied
    /\ input.f = f
    /\ applied' = TRUE
    /\ UNCHANGED <<input, sync_vars, pencil_vars, ui_vars>>

\* a world whose document is imgs
WorldOf(imgs) == [World EXCEPT !.h.images = imgs]

\* documents for ChangeName: those of the start, and one whose image "a" tracks
\* its sprite file by a document-relative path
RenameDocuments ==
    InitDocuments \cup
        {Document(InitImage("//p.ase", "", TRUE), InitImage("", "/r.png", FALSE))}

RenameOldNames == {"/p.ase", "a", "/r.png", "/none"}

RenameNewNames ==
    {"/q.ase", "/r.png", "/r.jpg", "/r.jpeg", "/r.bmp", "/r.tga", "/r.png.ase", "/rpng",
     "/r.PNG", "/r.Jpg", "/r.TGA"}

ChangeNameInputs ==
    {[f |-> "ChangeName", images |-> d, old_name |-> o, new_name |-> n] :
        d \in RenameDocuments, o \in RenameOldNames, n \in RenameNewNames}

\* ChangeName.execute on a host whose interface is not locked
ChangeNameCall ==
    /\ Applies("ChangeName")
    /\ output' = ChangeNameExecute(WorldOf(input.images),
                                   RenameMsg(input.old_name, input.new_name)).h.images

\* end points for line
Coords == (-MaxCoord)..MaxCoord

LineInputs ==
    {[f |-> "line", x1 |-> x1, y1 |-> y1, x2 |-> x2, y2 |-> y2] :
        x1 \in Coords, y1 \in Coords, x2 \in Coords, y2 \in Coords}

\* list(line(x1, y1, x2, y2))
LineCall ==
    /\ Applies("line")
    /\ output' = line(input.x1, input.y1, input.x2, input.y2)

\* canvases of 2 x 2 pixels: clear, opaque white, and one of mixed content
DrawPixels == {Clear \o Clear \o Clear \o Clear,
               White \o White \o White \o White,
               White \o Glass \o Clear \o Glass}

\* colours: opaque, transparent with and without colour, translucent
DrawColors == {<<One, Zero, Zero, One>>, <<One, Half, Zero, Zero>>,
               <<Zero, Zero, Zero, Zero>>, <<Zero, Zero, One, Half>>}

\* target pixels inside the canvas: none, one, a line, a repeated pixel
DrawDots == {<<>>, <<<<0, 0>>>>, <<<<1, 1>>>>, line(0, 0, 1, 1), line(1, 0, 1, 1),
             line(1, 1, 0, 1), <<<<0, 1>>, <<0, 1>>>>}

DrawInputs ==
    {[f |-> fn, pix |-> px, dots |-> ds, color |-> c] :
        fn \in {"draw_simple", "draw_alpha"}, px \in DrawPixels, ds \in DrawDots,
        c \in DrawColors}

DrawSimpleCall ==
    /\ Applies("draw_simple")
    /\ output' = draw_simple(Canvas(input.pix, 2), input.dots, input.color)

DrawAlphaCall ==
    /\ Applies("draw_alpha")
    /\ output' = draw_alpha(Canvas(input.pix, 2), input.dots, input.color)

\* an RGBA buffer of w x h pixels in which every byte tells its position, with
\* the bytes 0 and 255 among them
ByteRamp(w, h) ==
    [i \in 1..(w * h * 4) |-> IF i = 1 THEN 0 ELSE IF i = 4 THEN 255 ELSE (i * 37) % 256]

\* update_image applied to image "a", which tracks "/p.ase": the image has
\* pixel data of some size or none yet, the buffer is w x h
UpdateImageInputs ==
    {[f |-> "update_image",
      images |-> Document([InitImage("/p.ase", "", hd) EXCEPT !.size = sz,
                              !.pixels = [i \in 1..(sz[1] * sz[2] * 4) |-> Half]],
                          InitImage("/q.ase", "", TRUE)),
      args |-> [w |-> w, h |-> h, name |-> "/p.ase", frame |-> fr,
                pixels |-> ByteRamp(w, h)]] :
        hd \in BOOLEAN, sz \in {<<1, 2>>, <<2, 1>>, <<2, 2>>},
        w \in 1..MaxSide, h \in 1..MaxSide, fr \in {-1, 3}}

\* SB_OT_update_image.modal_execute with self.args = input.args
UpdateImageCall ==
    /\ Applies("update_image")
    /\ output' = update_image_modal_execute(WorldOf(input.images).h, input.args).images

\* the pixel of frame k (counted from 0) of a sprite of 1 x 1 pixels
FrameBlob(k) == <<k + 1, 2 * k + 1, 0, 255>>

\* a Spritesheet message of n frames of 1 x 1 pixels, each its own colour
SpritesheetInputs ==
    {[f |-> "Spritesheet",
      message |-> [t |-> "G", size |-> <<1, 1>>, name |-> "/p.ase", start |-> 0,
                   length |-> n, current_frame |-> 0,
                   frames |-> [k \in 1..n |-> <<k - 1, 100>>],
                   tags |-> <<>>, current_tag |-> "",
                   images |-> [k \in 1..n |-> FrameBlob(k - 1)]]] :
        n \in 1..MaxFrames}

\* Spritesheet.execute on a bridged, unlocked host: output is what the handler
\* hands to util.update_spritesheet
SpritesheetCall ==
    /\ Applies("Spritesheet")
    /\ output' = SpritesheetExecute(World, input.message).h.update_spritesheet_args

\* frame records (cel index, duration in ms) with pairwise different cels
FrameTables ==
    {<<<<0, 100>>, <<1, 200>>>>,
     <<<<0, 100>>, <<1, 200>>, <<2, 50>>>>,
     <<<<4, 40>>, <<3, 0>>, <<2, 125>>, <<1, 1000>>>>,
     <<<<7, 90>>>>}

\* an action of n keyframes left by an earlier rebuild
StaleAction(n) ==
    [id_root |-> "OBJECT", use_fake_user |-> TRUE,
     points |-> [i \in 1..n |-> [co |-> <<Rat(i, 1), 9>>, interpolation |-> "CONSTANT"]]]

\* the actions before the rebuild: none, the sprite's action with more
\* keyframes than any rebuild gives it, or that and a tag's action
StaleActions ==
    {<<>>,
     "a" :> StaleAction(8),
     ("a" :> StaleAction(8)) @@ ("a: walk" :> StaleAction(8)),
     ("a" :> StaleAction(1)) @@ ("a: walk" :> StaleAction(1))}

\* update_actions for sprite "a": no tag, or one tag over the first one to four
\* frames in each direction, which may be the current tag
UpdateActionsInputs ==
    UNION {{[f |-> "update_actions", actions |-> acts, start |-> st, frames |-> fr,
             tags |-> tg, current_tag |-> ct] :
               acts \in StaleActions, fr \in FrameTables,
               tg \in {<<>>} \cup {<<<<"walk", st, st + l, d>>>> : l \in 0..3, d \in 0..2},
               ct \in {"", "walk"}} : st \in {0, 1}}

\* SB_OT_update_spritesheet.update_actions; a current tag is one of the tags,
\* and a tag lies inside the frames
UpdateActionsCall ==
    /\ Applies("update_actions")
    /\ input.current_tag # "" => input.tags # <<>>
    /\ \A k \in 1..Len(input.tags) :
          /\ input.tags[k][2] >= input.start
          /\ input.tags[k][3] - input.start < Len(input.frames)
    /\ output' = update_actions(input.actions, "a", input.start, input.frames,
                                input.tags, input.current_tag)

\* images for image_name: with and without a tracked source, a load path and
\* packed data; paths absolute, document-relative ("//") and with a "." segment
ImageNameInputs ==
    {[f |-> "image_name", img |-> InitImage(src, fp, pk)] :
        src \in {"", "/p.ase", "//p.ase", "/d/./p.ase"},
        fp \in {"", "/r.png", "//r.png", "/d/./r.png"},
        pk \in BOOLEAN}

\* util.image_name of an image named "a"
ImageNameCall ==
    /\ Applies("image_name")
    /\ output' = image_name(input.img, "a")

\* the bytes of frame k (counted from 0) of a sprite of w x h pixels: every
\* byte tells its frame and its position
FrameBytes(k, w, h) == [i \in 1..(w * h * 4) |-> 16 * k + i]

\* a sheet image left by an earlier update, with a frame table of n entries
StaleSheet(n) ==
    [NewImage(1, 1) EXCEPT !.packed = TRUE, !.use_fake_user = TRUE, !.is_sheet = TRUE,
                           !.frame = 5, !.sheet_size = <<1, 1>>,
                           !.sheet_frames = [i \in 1..n |->
                               [frame |-> 9, time |-> <<9, 1>>, index |-> 9]]]

\* documents for a sheet update: the base image "a" tracks "/p.ase" and has no
\* sheet yet, or has one whose table is shorter or longer than the update's
SheetDocuments ==
    {Document(InitImage("/p.ase", "", TRUE), InitImage("/q.ase", "", TRUE))} \cup
    {("a [sheet]" :> StaleSheet(n)) @@
       Document([InitImage("/p.ase", "", TRUE) EXCEPT !.sheet = "a [sheet]"],
                InitImage("/q.ase", "", TRUE)) : n \in {1, MaxSheetFrames + 2}}

\* Spritesheet messages of n frames of w x h pixels with current frame c
SheetUpdateInputs ==
    UNION {{[f |-> "sheet_update", images |-> d,
             message |-> [t |-> "G", size |-> sz, name |-> "/p.ase", start |-> st,
                          length |-> n, current_frame |-> c,
                          frames |-> [k \in 1..n |-> <<k - 1, 50 * k>>],
                          tags |-> <<>>, current_tag |-> "",
                          images |-> [k \in 1..n |-> FrameBytes(k - 1, sz[1], sz[2])]]] :
               d \in SheetDocuments, sz \in (1..2) \X (1..2), st \in {0, 3}, c \in 0..(n - 1)} :
           n \in 1..MaxSheetFrames}

\* a Spritesheet message applied: Spritesheet.execute hands the composed sheet
\* to util.update_spritesheet, whose modal_execute writes the host data
SheetUpdateCall ==
    /\ Applies("sheet_update")
    /\ output' = update_spritesheet_modal_execute(
                    WorldOf(input.images).h,
                    SpritesheetExecute(WorldOf(input.images),
                                       input.message).h.update_spritesheet_args).images

\* the tags of a repeated update of n frames from start st: none, or the tag
\* "walk" over all frames in one of the three directions, which may be the
\* current tag
RepeatTags(n, st) ==
    {[tags |-> <<>>, current_tag |-> ""],
     [tags |-> <<<<"walk", st, st + n - 1, 0>>>>, current_tag |-> "walk"],
     [tags |-> <<<<"walk", st, st + n - 1, 1>>>>, current_tag |-> ""],
     [tags |-> <<<<"walk", st, st + n - 1, 2>>>>, current_tag |-> "walk"]}

\* documents for a repeated update: those of a sheet update, and one whose
\* image "b" is set up by load path only and has no pixel data yet
RepeatDocuments ==
    SheetDocuments \cup
        {Document(InitImage("", "", TRUE), InitImage("", "/p.ase", FALSE))}

\* Spritesheet messages to apply twice: n frames of 2 x 1 pixels, with the
\* documents and the actions an earlier update may have left
SheetTwiceInputs ==
    UNION {{[f |-> "sheet_twice", images |-> d, actions |-> acts,
             message |-> [t |-> "G", size |-> <<2, 1>>, name |-> "/p.ase", start |-> st,
                          length |-> n, current_frame |-> n - 1,
                          frames |-> [k \in 1..n |-> <<k - 1, 50 * k>>],
                          tags |-> tg.tags, current_tag |-> tg.current_tag,
                          images |-> [k \in 1..n |-> FrameBytes(k - 1, 2, 1)]]] :
               d \in RepeatDocuments, acts \in StaleActions, tg \in RepeatTags(n, st)} :
           n \in 1..MaxRepeatFrames, st \in {3}}

\* what util.update_spritesheet is called with for the message
RepeatArgs ==
    SpritesheetExecute([World EXCEPT !.h.images = input.images,
                                     !.h.actions = input.actions],
                       input.message).h.update_spritesheet_args

\* an image of w x h pixels, each pixel telling its place
Numbered(w, h) ==
    [size |-> <<w, h>>,
     pixels |-> [i \in 1..(w * h * 4) |-> Rat(i, 255)]]

ScaleImageInputs ==
    {[f |-> "scale_image", image |-> Numbered(w, h), scale |-> sc] :
        w \in 1..(MaxSide + 1), h \in 1..(MaxSide + 1), sc \in 1..MaxScale}

\* ui_3d.scale_image
ScaleImageCall ==
    /\ Applies("scale_image")
    /\ output' = scale_image(input.image, input.scale)

FunctionsInit ==
    /\ SyncIdle
    /\ PencilIdle
    /\ UiIdle
    /\ input \in ChangeNameInputs \cup LineInputs \cup DrawInputs \cup UpdateImageInputs
                   \cup SpritesheetInputs \cup UpdateActionsInputs
                   \cup ImageNameInputs \cup SheetUpdateInputs \cup ScaleImageInputs
    /\ output = None
    /\ applied = FALSE

FunctionsNext ==
    \/ ChangeNameCall
    \/ LineCall
    \/ DrawSimpleCall
    \/ DrawAlphaCall
    \/ UpdateImageCall
    \/ SpritesheetCall
    \/ UpdateActionsCall
    \/ ImageNameCall
    \/ SheetUpdateCall
    \/ ScaleImageCall

FunctionsSpec == FunctionsInit /\ [][FunctionsNext]_vars

(***************************************************************************)
(* A Spritesheet update repeated.  input holds the message and the host    *)
(* data before it; every step applies the message to the host data the     *)
(* step before left, and output.hist keeps the host data after each.       *)
(***************************************************************************)
\* SB_OT_update_spritesheet.modal_execute for the message, once more
SheetAgainCall ==
    /\ input.f = "sheet_twice"
    /\ Len(output.hist) < 2
    /\ LET h == IF output.hist = <<>>
                THEN [World EXCEPT !.h.images = input.images,
                                   !.h.actions = input.actions].h
                ELSE output.hist[Len(output.hist)]
       IN output' = [hist |-> Append(output.hist,
                                     update_spritesheet_modal_execute(h, RepeatArgs))]
    /\ applied' = TRUE
    /\ UNCHANGED <<input, sync_vars, pencil_vars, ui_vars>>

RepeatInit ==
    /\ SyncIdle
    /\ PencilIdle
    /\ UiIdle
    /\ input \in SheetTwiceInputs
    /\ output = [hist |-> <<>>]
    /\ applied = FALSE

RepeatNext == SheetAgainCall

RepeatSpec == RepeatInit /\ [][RepeatNext]_vars

(***************************************************************************)
(* Vocabulary of the properties                                            *)
(***************************************************************************)
\* the host document: what the update operators and ChangeName write
Host == <<images, actions>>

\* the step ends the modal handler of pending operator i
Released(i) == i \in 1..Len(ops) /\ ops' = Remove(ops, i)

\* the step is the tick of pending operator i: its handler ends and its timer
\* is removed
Ticked(i) == Released(i) /\ timers' = timers - 1

\* the step is taken by the async context (a message is processed or
\* ChangeName polls); every other step hands over or belongs to the main context
AsyncStep == ~yielded'

\* the step processes a top-level message
ReceiveStep == status = "idle" /\ status' # "idle"

\* the host has the lock query and answers it with "locked"
ReportsLocked == has_lock_query /\ locked

\* what the tick of operator op makes of the host when it applies args
Applied(op, args) ==
    LET h == [images |-> images, actions |-> actions,
              update_image_args |-> update_image_args,
              update_spritesheet_args |-> update_spritesheet_args]
    IN IF op.kind = "update_image" THEN update_image_modal_execute(h, args)
       ELSE update_spritesheet_modal_execute(h, args)

\* every image is kept and has the pixels, size and frame index it had: what
\* the update operators write is untouched
PixelsKept(old, new) ==
    /\ DOMAIN new = DOMAIN old
    /\ \A n \in DOMAIN old :
          /\ new[n].pixels = old[n].pixels
          /\ new[n].size = old[n].size
          /\ new[n].frame = old[n].frame

\* no open image has the identity name
NoMatch(imgs, name) == \A n \in DOMAIN imgs : image_name(imgs[n], n) # name

WarningOp(message) ==
    [kind |-> "report", args |-> [message_type |-> "WARNING", message |-> message],
     call |-> [message_type |-> "WARNING", message |-> message]]

SkipMessage(m) ==
    IF m.t = "F" THEN "UI is locked, frame flip skipped"
    ELSE "UI is locked, image update skipped"

(***************************************************************************)
(* Properties                                                              *)
(***************************************************************************)
\* C1: when the task of a Batch message has ended, every sub-message, those of
\* nested Batches included, has been handed to the dispatcher, in listed order
\* (depth first): nothing is left undispatched.
C1_BatchDispatchesAll ==
    (status \in {"done", "failed"} /\ cur.t = "[") => dispatched = Flatten(cur)

\* C2: Image and Spritesheet updates create no plain image.  The only image a
\* step adds is the "<base> [sheet]" companion of an image that exists already;
\* an update whose name matches no image by identity leaves images and actions
\* as they are, at its tick when deferred and in the handler when synchronous.
C2_NoPlainImageCreated ==
    [][/\ DOMAIN images \subseteq DOMAIN images'
       /\ \A n \in DOMAIN images' \ DOMAIN images :
             \E b \in DOMAIN images : n = b \o " [sheet]"
       /\ \A i \in 1..Len(ops) :
             (/\ Ticked(i)
              /\ ops[i].kind # "report"
              /\ NoMatch(images, ops[i].args.name)) => Host' = Host
       /\ (/\ ReceiveStep
           /\ cur'.t \in {"I", "G"}
           /\ NoMatch(images, cur'.name)) => Host' = Host]_vars

\* C2 witness: on a bridged host an update_image operator has ticked for a name
\* that matches no image (its slot was left set) and the document is untouched
C2_Witness ==
    /\ Bridged
    /\ update_image_args # None
    /\ ops = <<>> /\ timers = 0
    /\ NoMatch(images, update_image_args.name)
    /\ images \in InitDocuments

\* C3: a deferred operator's modal handler ends only by its tick: whenever a
\* pending operator leaves the handler list, its timer is removed and its
\* modal_execute has been performed, whatever event the handler received.
C3_WorkDoneWhenHandlerEnds ==
    [][\A i \in 1..Len(ops) :
          Released(i) =>
             /\ timers' = timers - 1
             /\ ops[i].kind = "report" =>
                   last_report' = <<ops[i].args.message_type, ops[i].args.message>>
             /\ ops[i].kind # "report" => Host' = <<Applied(ops[i], ops[i].call).images,
                                                    Applied(ops[i], ops[i].call).actions>>]_vars

\* C4 (as claimed): last writer wins.  The tick of an update operator behind
\* which a later call of the same kind is pending applies nothing to the
\* document.
C4_FirstCallDiscarded ==
    [][\A i \in 1..Len(ops) :
          (/\ Ticked(i)
           /\ ops[i].kind # "report"
           /\ \E j \in (i + 1)..Len(ops) : ops[j].kind = ops[i].kind) => Host' = Host]_vars

\* C4 (amended): each call's arguments are captured by its own operator at
\* execute.  The tick of an update operator applies the arguments of the call
\* that created it, whatever calls of the same kind came after; only the
\* module-level slot holds the last call's arguments.
C4_EachCallApplied ==
    [][\A i \in 1..Len(ops) :
          (Ticked(i) /\ ops[i].kind # "report") =>
             Host' = <<Applied(ops[i], ops[i].call).images,
                       Applied(ops[i], ops[i].call).actions>>]_vars

\* C4 witness: two update_image calls with different arguments are pending, the
\* slot holds the second call's and the first operator still has its own
C4_Witness ==
    /\ Len(ops) = 2
    /\ ops[1].kind = "update_image" /\ ops[2].kind = "update_image"
    /\ update_image_args = ops[2].call
    /\ ops[1].args = ops[1].call
    /\ ops[1].args # update_image_args
    /\ FindImage(images, ops[1].args.name) # NoName

\* C5 (as claimed): on a bridged host images change only in the main context,
\* by the tick of a deferred operator.
C5_AllMutationsDeferred ==
    [][(Bridged /\ images' # images) => (yielded /\ \E i \in 1..Len(ops) : Ticked(i))]_vars

\* C5 (amended): on a bridged host the updates of Image and Spritesheet change
\* images only by the tick of their deferred operator in the main context; the
\* one write from the async context is ChangeName's, made directly by the
\* handler; it leaves pixels, size and frame index alone.
C5_UpdatesDeferredRenameDirect ==
    [][(Bridged /\ images' # images) =>
          \/ yielded /\ \E i \in 1..Len(ops) : Ticked(i) /\ ops[i].kind # "report"
          \/ /\ ReceiveStep
             /\ \E k \in 1..Len(dispatched') : dispatched'[k].t = "C"
             /\ PixelsKept(images, images')]_vars

\* C5 witness: on a bridged host an image carries pixels written by a tick and
\* a source written by ChangeName
C5_Witness ==
    /\ Bridged
    /\ images["a"].source = "/q.ase"
    /\ images["a"].pixels # NewImage(1, 2).pixels

\* C6: an Image, Spritesheet or Frame message processed while the host reports
\* its interface locked invokes no update operator (document and argument slots
\* stay as they are) and invokes the report operator with a WARNING instead.
C6_LockedUpdateSkipped ==
    [][(ReceiveStep /\ ReportsLocked /\ cur'.t \in {"I", "G", "F"}) =>
          /\ status' = "done"
          /\ UNCHANGED <<images, actions, update_image_args, update_spritesheet_args>>
          /\ IF Bridged
             THEN ops' = Append(ops, WarningOp(SkipMessage(cur'))) /\ timers' = timers + 1
             ELSE ops' = ops /\ last_report' = <<"WARNING", SkipMessage(cur')>>]_vars

\* C6 witness: an Image message has been processed under lock and the warning
\* operator is pending
C6_Witness ==
    /\ ReportsLocked /\ Bridged
    /\ status = "done"
    /\ cur.t = "I"
    /\ ops # <<>>
    /\ ops[Len(ops)] = WarningOp("UI is locked, image update skipped")

\* C7: on a host with the lock query no step of the async context changes an
\* image's tracked source or load path while the interface is locked.
C7_NoRenameWhileLocked ==
    [][(AsyncStep /\ ReportsLocked) =>
          \A n \in DOMAIN images :
             /\ n \in DOMAIN images'
             /\ images'[n].source = images[n].source
             /\ images'[n].filepath = images[n].filepath]_vars

\* C7 witness: ChangeName is in its wait under lock, has polled, and the image
\* it names still has the old source
C7_Witness ==
    /\ status = "rename"
    /\ ReportsLocked
    /\ polled
    /\ \E n \in DOMAIN images : source_abs(images[n]) = rename.old_name

\* C8: after an iteration of ChangeName's polling loop the async context has
\* handed control to the event loop, so that the main context can run and
\* release the lock.
C8_PollSuspends == polled => yielded

\* C9: an exception in one message's apply step does not keep later messages
\* from being applied: a task that ended with an exception had dispatched every
\* message of its Batch.
C9_FailureContained == status = "failed" => dispatched = Flatten(cur)

\* C10: the identities of the open images are pairwise distinct.
C10_IdentitiesDistinct ==
    \A n1, n2 \in DOMAIN images :
        n1 # n2 => image_name(images[n1], n1) # image_name(images[n2], n2)

\* the name ends in one of the extensions of ChangeName's pattern, as written
\* there (lower case)
EndsInRasterExtension(name) ==
    \E ext \in {".png", ".jpg", ".jpeg", ".bmp", ".tga"} :
        /\ Len(name) >= Len(ext)
        /\ \A k \in 1..Len(ext) :
              SubSeq(name, Len(name) - Len(ext) + k, Len(name) - Len(ext) + k)
                 = SubSeq(ext, k, k)

\* ChangeName's match: old is the image's tracked source, load path or name
MatchesOld(img, n, old) == source_abs(img) = old \/ img.filepath = old \/ n = old

\* C11: ChangeName(old, new) gives every image that matches old by tracked
\* source, load path or name the tracked source new and the load path new when
\* new ends in a raster extension, the empty load path otherwise; an image that
\* matches by none of the three is as it was, and no image is added or removed.
C11_RenameRepointsMatches ==
    (applied /\ input.f = "ChangeName") =>
        /\ DOMAIN output = DOMAIN input.images
        /\ \A n \in DOMAIN input.images :
              IF MatchesOld(input.images[n], n, input.old_name)
              THEN output[n] =
                     [input.images[n] EXCEPT
                         !.source = input.new_name,
                         !.filepath = IF EndsInRasterExtension(input.new_name)
                                      THEN input.new_name ELSE ""]
              ELSE output[n] = input.images[n]

\* C11 witness: a rename to a .png name has been applied to a document in
\* which one image matches the old name and the other does not
C11_Witness ==
    /\ applied /\ input.f = "ChangeName"
    /\ input.new_name = "/r.png"
    /\ MatchesOld(input.images["a"], "a", input.old_name)
    /\ ~MatchesOld(input.images["b"], "b", input.old_name)
    /\ output["a"].filepath = "/r.png"
    /\ output["b"] = input.images["b"]

\* the letters of the raster extensions in lower case; every other character
\* of the names in use is its own lower case
LowerChar(c) ==
    CASE c = "P" -> "p" [] c = "N" -> "n" [] c = "G" -> "g" [] c = "J" -> "j"
      [] c = "E" -> "e" [] c = "B" -> "b" [] c = "M" -> "m" [] c = "T" -> "t"
      [] c = "A" -> "a" [] OTHER -> c

RECURSIVE Lower(_)
Lower(name) ==
    IF name = "" THEN ""
    ELSE LowerChar(SubSeq(name, 1, 1)) \o Lower(SubSeq(name, 2, Len(name)))

\* C12: the raster-extension test of ChangeName ignores case: a new name whose
\* lower-case form ends in a raster extension becomes the load path of every
\* image that matches the old name.
C12_RasterTestIgnoresCase ==
    (applied /\ input.f = "ChangeName") =>
        \A n \in DOMAIN input.images :
            (/\ MatchesOld(input.images[n], n, input.old_name)
             /\ EndsInRasterExtension(Lower(input.new_name)))
                => output[n].filepath = input.new_name

\* C13: with no window, or with skip_modal set, invoking a deferred operator
\* registers no modal handler and no timer, and its work is done when the
\* invocation returns: the step that processes an Image message leaves the
\* document as update_image's modal_execute makes it.
C13_SynchronousFallback ==
    [][(~window \/ skip_modal) =>
          /\ ops' = <<>>
          /\ timers' = 0
          /\ (ReceiveStep /\ cur'.t = "I" /\ ~ReportsLocked) =>
                LET args == [w |-> cur'.size[1], h |-> cur'.size[2], name |-> cur'.name,
                             frame |-> cur'.frame, pixels |-> cur'.data]
                    h1   == Applied([kind |-> "update_image"], args)
                IN Host' = <<h1.images, h1.actions>>]_vars

\* C13 witness: the preference is set on a host with a window, an Image message
\* has been processed, and the image has its pixels with nothing registered
C13_Witness ==
    /\ window /\ skip_modal
    /\ status = "done"
    /\ cur.t = "I"
    /\ images["a"].pixels = FlipRows(ToFloats(cur.data), 2)
    /\ ops = <<>> /\ timers = 0

Max(a, b) == IF a > b THEN a ELSE b

\* C15: line(x1, y1, x2, y2) starts at (x1, y1), ends at (x2, y2), has
\* max(|x2-x1|, |y2-y1|) + 1 points, and from one point to the next moves by
\* exactly 1 along the major axis and by at most 1 along the minor axis.
C15_LineReachesEnd ==
    (applied /\ input.f = "line") =>
        LET w_abs == Abs(input.x2 - input.x1)
            h_abs == Abs(input.y2 - input.y1)
        IN /\ Len(output) = Max(w_abs, h_abs) + 1
           /\ output[1] = <<input.x1, input.y1>>
           /\ output[Len(output)] = <<input.x2, input.y2>>
           /\ \A k \in 1..(Len(output) - 1) :
                 LET sx == Abs(output[k + 1][1] - output[k][1])
                     sy == Abs(output[k + 1][2] - output[k][2])
                 IN IF w_abs > h_abs THEN sx = 1 /\ sy <= 1
                    ELSE sy = 1 /\ sx <= 1

\* C15 witness: a line of several points with both axes moving has been drawn
C15_Witness ==
    /\ applied /\ input.f = "line"
    /\ Abs(input.x2 - input.x1) = 3 /\ Abs(input.y2 - input.y1) = 2
    /\ input.x2 < input.x1
    /\ Len(output) = 4

\* the four channels of pixel (x, y) of a canvas 2 pixels wide
PixelAt(pix, x, y) == SubSeq(pix, 4 * (2 * y + x) + 1, 4 * (2 * y + x) + 4)

\* (x, y) is one of the dots
IsTarget(dots, x, y) == \E k \in 1..Len(dots) : dots[k] = <<x, y>>

\* C16: draw_simple leaves at every target pixel the colour itself, all four
\* channels, when the colour's alpha is 1, and (0, 0, 0, 0) when the colour's
\* alpha is 0 whatever its RGB; every other pixel is as it was.
C16_SimpleReplaces ==
    (applied /\ input.f = "draw_simple" /\ input.color[4] \in {Zero, One}) =>
        /\ ~output.raised
        /\ \A x \in 0..1, y \in 0..1 :
              PixelAt(output.pix, x, y) =
                 IF ~IsTarget(input.dots, x, y) THEN PixelAt(input.pix, x, y)
                 ELSE IF input.color[4] = One THEN input.color
                 ELSE <<Zero, Zero, Zero, Zero>>

\* C16 witness: a transparent colour with RGB has been drawn over opaque pixels
C16_Witness ==
    /\ applied /\ input.f = "draw_simple"
    /\ input.color = <<One, Half, Zero, Zero>>
    /\ Len(input.dots) = 2
    /\ PixelAt(input.pix, 1, 1) = White
    /\ PixelAt(output.pix, 1, 1) = Clear

\* C17: draw_alpha with a colour of alpha 0 leaves every pixel as it was.
C17_TransparentAlphaNoOp ==
    (applied /\ input.f = "draw_alpha" /\ input.color[4] = Zero) =>
        output = Canvas(input.pix, 2)

\* C17 witness: draw_alpha has been applied with a transparent colour that has
\* RGB, with targets of mixed content
C17_Witness ==
    /\ applied /\ input.f = "draw_alpha"
    /\ input.color = <<One, Half, Zero, Zero>>
    /\ input.dots = line(0, 0, 1, 1)
    /\ PixelAt(input.pix, 1, 1) = Glass
    /\ output.pix = input.pix

\* C18: an applied image update of a w x h buffer stores input row r as row
\* h-1-r, every byte b as b/255 (0 as 0.0, 255 as 1.0), and leaves the image
\* with size w x h.
C18_RowsStoredFlipped ==
    (applied /\ input.f = "update_image") =>
        LET w == input.args.w
            h == input.args.h
            bytes == input.args.pixels
            row == Len(bytes) \div h
            img == output["a"]
        IN /\ img.size = <<w, h>>
           /\ Len(img.pixels) = Len(bytes)
           /\ \A r \in 0..(h - 1), c \in 1..row :
                 /\ img.pixels[(h - 1 - r) * row + c] = Rat(bytes[r * row + c], 255)
                 /\ bytes[r * row + c] = 0 => img.pixels[(h - 1 - r) * row + c] = <<0, 1>>
                 /\ bytes[r * row + c] = 255 => img.pixels[(h - 1 - r) * row + c] = <<1, 1>>

\* C18 witness: a buffer of two rows has been applied to an image of another
\* size, and the first input byte is now the first of the last stored row
C18_Witness ==
    /\ applied /\ input.f = "update_image"
    /\ input.args.h = 2 /\ input.args.w = 2
    /\ input.images["a"].size = <<1, 2>>
    /\ input.images["a"].has_data
    /\ output["a"].pixels[9] = <<0, 1>>
    /\ output["a"].pixels[12] = <<1, 1>>

\* C19: for n >= 1 frames the handler's grid has columns = ceil(sqrt(n)) and
\* rows = ceil(n / columns) (3 x 3 for n = 7, 4 x 3 for n = 10), so
\* columns * rows >= n, and the cells (k mod columns, k div columns) of the
\* frames k = 0..n-1 are inside the grid and pairwise distinct: the composed
\* sheet holds every frame's pixel in its cell.
C19_GridHoldsAllFrames ==
    (applied /\ input.f = "Spritesheet") =>
        LET n == input.message.length
            columns == output.count[1]
            rows == output.count[2]
            cell(k) == <<k % columns, k \div columns>>
        IN /\ (columns - 1) * (columns - 1) < n /\ n <= columns * columns
           /\ (rows - 1) * columns < n /\ n <= rows * columns
           /\ n = 7 => output.count = <<3, 3>>
           /\ n = 10 => output.count = <<4, 3>>
           /\ Len(output.pixels) = rows
           /\ \A k \in 0..(n - 1) :
                 /\ cell(k)[1] < columns /\ cell(k)[2] < rows
                 /\ \A j \in 0..(n - 1) : cell(j) = cell(k) => j = k
                 /\ SubSeq(output.pixels[cell(k)[2] + 1],
                           4 * cell(k)[1] + 1, 4 * cell(k)[1] + 4) = FrameBlob(k)

\* C19 witness: a sheet of 7 frames has been composed
C19_Witness ==
    /\ applied /\ input.f = "Spritesheet"
    /\ input.message.length = 7
    /\ output.count = <<3, 3>>
    /\ SubSeq(output.pixels[3], 1, 4) = FrameBlob(6)
    /\ SubSeq(output.pixels[3], 5, 8) = <<0, 0, 0, 0>>

\* the duration of the frame record with cel index cel
DurationOf(frames, cel) ==
    frames[CHOOSE k \in 1..Len(frames) : frames[k][1] = cel][2]

\* a + ms * fps / 1000 with fps = RenderFps / RenderFpsBase
AfterMs(a, ms) == RAdd(a, Rat(ms * RenderFps, 1000 * RenderFpsBase))

\* the actions a rebuild for sprite "a" writes: the sprite's own and one a tag
RebuiltActions(tags) == {"a"} \cup {"a: " \o tags[k][1] : k \in 1..Len(tags)}

\* C20: after an action rebuild the first keyframe of every curve is at the
\* scene's first frame, every next one lies later by the duration of the entry
\* before it times fps / 1000 (fps = render fps / fps base), and a keyframe's
\* value is its entry's cel index: with no current tag the sprite's own action
\* holds the frame records in order and the last once more.  For fps = 24 and
\* durations 100, 200 the coordinates are first, first + 2.4, first + 7.2.
C20_KeyframeTimes ==
    (applied /\ input.f = "update_actions") =>
        /\ \A name \in RebuiltActions(input.tags) :
              LET pts == output[name].points
              IN /\ pts[1].co[1] = Rat(SceneFrameStart, 1)
                 /\ \A i \in 1..(Len(pts) - 1) :
                       pts[i + 1].co[1] =
                          AfterMs(pts[i].co[1], DurationOf(input.frames, pts[i].co[2]))
        /\ input.current_tag = "" =>
              /\ Len(output["a"].points) = Len(input.frames) + 1
              /\ \A i \in 1..Len(input.frames) :
                    output["a"].points[i].co[2] = input.frames[i][1]
              /\ output["a"].points[Len(input.frames) + 1].co[2]
                    = input.frames[Len(input.frames)][1]
        /\ (input.current_tag = "" /\ input.frames = <<<<0, 100>>, <<1, 200>>>>) =>
              /\ output["a"].points[1].co[1] = Rat(SceneFrameStart, 1)
              /\ output["a"].points[2].co[1] = RAdd(Rat(SceneFrameStart, 1), Rat(24, 10))
              /\ output["a"].points[3].co[1] = RAdd(Rat(SceneFrameStart, 1), Rat(72, 10))

\* C20 witness: the frames of 100 and 200 ms have been rebuilt over a stale
\* action of 8 keyframes, and the last keyframe is at first + 7.2
C20_Witness ==
    /\ applied /\ input.f = "update_actions"
    /\ input.frames = <<<<0, 100>>, <<1, 200>>>>
    /\ input.current_tag = ""
    /\ input.actions # <<>>
    /\ Len(output["a"].points) = 3
    /\ output["a"].points[3].co = <<Rat(SceneFrameStart * 10 + 72, 10), 1>>

\* C14: in a paint session the preview draw callback is attached once, at the
\* start, and detached once, by the release that ends the session: a session
\* that has ended has detached it, ended by a release, and is not drawing.
C14_PreviewDetachedOnce ==
    /\ session # "none" => log.attached = 1
    /\ session = "modal" => (log.detached = 0 /\ draw_handlers = 1)
    /\ session = "ended" =>
          /\ log.detached = 1
          /\ draw_handlers = 0
          /\ log.ended_by = "release"
          /\ ~is_drawing

\* the absolute, normalized form of the paths in use
Resolved(p) ==
    CASE p = "//p.ase" -> "/p.ase"
      [] p = "/d/./p.ase" -> "/d/p.ase"
      [] p = "//r.png" -> "/r.png"
      [] p = "/d/./r.png" -> "/d/r.png"
      [] OTHER -> p

\* C26: the matching key of an image is its tracked source when one is set,
\* otherwise its load path when the image has no packed data and the load path
\* is not empty, otherwise its resource name; a packed image without a tracked
\* source has its name as key even if it has a load path.
C26_MatchingKey ==
    (applied /\ input.f = "image_name") =>
        LET img == input.img
        IN /\ img.source # "" => output = Resolved(img.source)
           /\ (img.source = "" /\ ~img.packed /\ img.filepath # "") =>
                 output = Resolved(img.filepath)
           /\ (img.source = "" /\ (img.packed \/ img.filepath = "")) => output = "a"

\* C26 witness: the key of a packed image with a load path and no tracked
\* source has been computed, and is the name
C26_Witness ==
    /\ applied /\ input.f = "image_name"
    /\ input.img.source = "" /\ input.img.packed /\ input.img.filepath = "/r.png"
    /\ output = "a"

\* the cel indices of the frame records first..last, counted from 1
Cels(frames, first, last) == [i \in 1..(last - first + 1) |-> frames[first + i - 1][1]]

\* C30: the curve of a tag over m >= 1 frames f1..fm holds the played sequence
\* and its last cel once more: f1..fm,fm (m + 1 keyframes) forward, fm..f1,f1
\* (m + 1) in reverse, f1..fm,f(m-1)..f2 and the last of these once more
\* (m + max(m - 2, 0) + 1) for ping-pong, whatever the curve held before.
C30_TagCurveLength ==
    (applied /\ input.f = "update_actions" /\ input.tags # <<>>) =>
        LET tag == input.tags[1]
            m   == tag[3] - tag[2] + 1
            f   == Cels(input.frames, tag[2] - input.start + 1, tag[3] - input.start + 1)
            pts == output["a: walk"].points
            val == [i \in 1..Len(pts) |-> pts[i].co[2]]
        IN /\ tag[4] = 0 => val = f \o <<f[m]>>
           /\ tag[4] = 1 => val = Reverse(f) \o <<f[1]>>
           /\ tag[4] = 2 =>
                 /\ Len(val) = m + Max(m - 2, 0) + 1
                 /\ SubSeq(val, 1, m) = f
                 /\ \A i \in 1..Max(m - 2, 0) : val[m + i] = f[m - i]
                 /\ val[Len(val)] = val[Len(val) - 1]
           /\ tag[4] \in {0, 1} => Len(pts) = m + 1

\* C30 witness: a ping-pong tag over four frames has been rebuilt over a stale
\* curve of 8 keyframes and holds 7
C30_Witness ==
    /\ applied /\ input.f = "update_actions"
    /\ input.tags # <<>> /\ input.tags[1][4] = 2
    /\ input.tags[1][3] - input.tags[1][2] = 3
    /\ "a: walk" \in DOMAIN input.actions
    /\ Len(input.actions["a: walk"].points) = 8
    /\ Len(output["a: walk"].points) = 7

\* the sum of the durations of the first i frame records
RECURSIVE SumDurations(_, _)
SumDurations(frames, i) == IF i = 0 THEN 0 ELSE SumDurations(frames, i - 1) + frames[i][2]

\* C28: after an applied spritesheet update with n frame records and start
\* offset s the sheet's frame table has exactly n entries, whatever its length
\* before, and entry i (from 0) has frame number i + s, sequence index i and
\* time the sum of the durations of records 0..i-1 divided by 1000.
C28_FrameTableRebuilt ==
    (applied /\ input.f = "sheet_update") =>
        LET fd == output["a [sheet]"].sheet_frames
            n  == Len(input.message.frames)
        IN /\ Len(fd) = n
           /\ \A i \in 0..(n - 1) :
                 /\ fd[i + 1].frame = i + input.message.start
                 /\ fd[i + 1].index = i
                 /\ fd[i + 1].time = Rat(SumDurations(input.message.frames, i), 1000)

\* C28 witness: an update of two frames has been applied to a sheet whose
\* table had more entries, and the table has two
C28_Witness ==
    /\ applied /\ input.f = "sheet_update"
    /\ "a [sheet]" \in DOMAIN input.images
    /\ Len(input.images["a [sheet]"].sheet_frames) > 2
    /\ Len(input.message.frames) = 2
    /\ input.message.start = 3
    /\ output["a [sheet]"].sheet_frames =
          <<[frame |-> 3, time |-> <<0, 1>>, index |-> 0],
            [frame |-> 4, time |-> <<1, 20>>, index |-> 1]>>

\* C29: a Spritesheet message with n >= 1 frames and current frame c < n,
\* applied to an existing base image, writes to the base image exactly the
\* pixel blob of frame c, as an Image message with that blob would, and makes
\* its frame index c; the sheet image receives the whole composed buffer and
\* its frame index is as before.
C29_BaseImageGetsCurrentFrame ==
    (applied /\ input.f = "sheet_update") =>
        LET m     == input.message
            c     == m.current_frame
            cols  == CeilSqrt(m.length)
            rows  == CeilDiv(m.length, cols)
            base  == output["a"]
            sheet == output["a [sheet]"]
        IN /\ base.pixels = FlipRows(ToFloats(m.images[c + 1]), m.size[2])
           /\ base.size = m.size
           /\ base.frame = c
           /\ sheet.size = <<m.size[1] * cols, m.size[2] * rows>>
           /\ sheet.pixels =
                 FlipRows(ToFloats(Concat(ComposeSheet(m.size, <<cols, rows>>, m.images))),
                          m.size[2] * rows)
           /\ sheet.frame = IF "a [sheet]" \in DOMAIN input.images
                             THEN input.images["a [sheet]"].frame ELSE 0

\* C29 witness: five frames of 2 x 2 pixels with current frame 4, the second
\* cell of the second row of the sheet, have been applied to a sheet at frame 5
C29_Witness ==
    /\ applied /\ input.f = "sheet_update"
    /\ input.message.length = 5 /\ input.message.size = <<2, 2>>
    /\ input.message.current_frame = 4
    /\ "a [sheet]" \in DOMAIN input.images
    /\ output["a"].frame = 4
    /\ output["a"].pixels[1] = Rat(16 * 4 + 9, 255)
    /\ output["a [sheet]"].frame = 5

\* the four channels of the pixel at (x, y) of an image w pixels wide
PixelOf(pixels, w, x, y) == SubSeq(pixels, 4 * (w * y + x) + 1, 4 * (w * y + x) + 4)

\* C27: scale_image(image, s) is a nearest-neighbour upscale for every width w
\* and height h, square or not: the result has size (w*s) x (h*s) and its
\* pixel at (x, y) is the original pixel at (x div s, y div s).
C27_NearestNeighbourUpscale ==
    (applied /\ input.f = "scale_image") =>
        LET w  == input.image.size[1]
            h  == input.image.size[2]
            sc == input.scale
        IN /\ output.size = <<w * sc, h * sc>>
           /\ Len(output.pixels) = w * sc * h * sc * 4
           /\ \A x \in 0..(w * sc - 1), y \in 0..(h * sc - 1) :
                 PixelOf(output.pixels, w * sc, x, y)
                    = PixelOf(input.image.pixels, w, x \div sc, y \div sc)

\* C22: after any number k >= 1 of reloads, single or of all references, also
\* of an image that several objects show, the image's dimensions are those of
\* the file it was loaded from times the recorded prescale: reloads do not
\* compound the prescale.
C22_ReloadKeepsPrescale ==
    \A id \in 1..Len(ref_images) :
        reloads[id] >= 1 =>
            ref_images[id].size = <<ref_images[id].file[1] * ref_images[id].prescale,
                                    ref_images[id].file[2] * ref_images[id].prescale>>

\* C22 witness: an image of 2 x 1 pixels with prescale 2 that two objects show
\* has been reloaded twice and is 4 x 2 pixels
C22_Witness ==
    \E id \in 1..Len(ref_images) :
        /\ Uses(ref_objects, id) = 2
        /\ reloads[id] = 2
        /\ ref_images[id].file = <<2, 1>>
        /\ ref_images[id].prescale = 2
        /\ ref_images[id].size = <<4, 2>>

\* every run of the rig operator so far asked for the same image and name
SameRequests == \A i, j \in 1..Len(rig_log) : rig_log[i] = rig_log[j]

\* the modifiers of the object with the given name
ModifiersNamed(obj, name) == {k \in 1..Len(obj.modifiers) : obj.modifiers[k].name = name}

\* C21, as stated: two runs of the rig operator on the same object with the
\* same image and the same animation name leave one UV-warp modifier and one
\* custom property: the second run reuses those of the first.
C21_SecondRunReusesArtifacts ==
    (Len(rig_log) >= 2 /\ SameRequests) =>
        /\ Cardinality(DOMAIN rig_obj.props) = 1
        /\ Len(rig_obj.modifiers) = 1

\* C21, amended: every run of the rig operator adds a binding of its own, with
\* a name and a property name no other binding of the object has, and every
\* binding has exactly one custom property and exactly one UV-warp modifier of
\* its property name; the object has as many properties and modifiers as
\* bindings, also when the runs ask for the same image and name.
C21_EachRunOwnArtifacts ==
    LET b == rig_obj.animations
    IN (Len(rig_log) >= 1) =>
        /\ Len(b) = Len(rig_log)
        /\ \A i \in 1..Len(b) :
              /\ b[i].prop_name \in DOMAIN rig_obj.props
              /\ Cardinality(ModifiersNamed(rig_obj, b[i].prop_name)) = 1
              /\ \A k \in ModifiersNamed(rig_obj, b[i].prop_name) :
                    rig_obj.modifiers[k].type = "UV_WARP"
              /\ \A j \in 1..Len(b) :
                    j # i => (b[j].name # b[i].name /\ b[j].prop_name # b[i].prop_name)
        /\ Cardinality(DOMAIN rig_obj.props) = Len(b)
        /\ Len(rig_obj.modifiers) = Len(b)

\* C21 witness: the object has been rigged twice with image "s" and the name
\* "walk", and has two properties and two modifiers
C21_Witness ==
    /\ Len(rig_log) = 2
    /\ rig_log[1] = [image |-> "s", name |-> "walk"]
    /\ rig_log[2] = rig_log[1]
    /\ DOMAIN rig_obj.props = {"Frame s", "Frame s.001"}
    /\ ModifierNames(rig_obj) = {"Frame s", "Frame s.001"}
    /\ BindingNames(rig_obj) = {"walk", "walk.001"}

\* the step is a run of the rig operator asked for from the panel
RigAsked == rig_result'.calls = rig_result.calls + 1

\* the report is an error with a message
IsError(r) == r # None /\ r.type = "ERROR" /\ r.message # ""

PreviewLocked ==
    /\ scene.action_preview_enabled
    /\ scene.use_preview_range
    /\ scene.action_preview # NoName

\* C23, as stated: while a preview lock is active and no notification for the
\* previewed object's animation data waits to be processed, the preview range
\* of the scene is the frame range of the object's current action.
C23_PreviewRangeFollowsAction ==
    (PreviewLocked /\ ~notified /\ objects[scene.action_preview].action # "") =>
        scene.frame_preview = FrameRange(objects[scene.action_preview].action)

\* while the callback is subscribed to the previewed object, the preview range
\* follows the object's action
PreviewRangeFollowsWhileSubscribed ==
    (PreviewLocked /\ ~notified /\ objects[scene.action_preview].action # ""
        /\ Subscribed(subscriptions, scene.action_preview)) =>
        scene.frame_preview = FrameRange(objects[scene.action_preview].action)

\* C24, as stated: unlock is available exactly while the preview-enabled flag
\* is on, and at most one subscription of the callback exists.
C24_UnlockWhileLocked ==
    /\ clear_action_preview_poll <=> scene.action_preview_enabled
    /\ Len(subscriptions) <= 1

\* at most one subscription of the callback exists, on the previewed object
AtMostOneSubscription ==
    /\ Len(subscriptions) <= 1
    /\ \A k \in 1..Len(subscriptions) : subscriptions[k] = scene.action_preview

\* a step of unlock leaves no lock state
UnlockLeavesNothing ==
    [][(clear_action_preview_poll /\ ~scene'.action_preview_enabled) =>
          /\ scene'.action_preview = NoName
          /\ ~scene'.use_preview_range
          /\ subscriptions' = <<>>
          /\ ~notified']_vars

\* the lock is left without its subscription, or cannot be unlocked
PreviewLockBroken ==
    /\ scene.action_preview_enabled
    /\ scene.action_preview # NoName
    /\ ~clear_action_preview_poll

\* the step is a finished unrig: the active binding leaves the list
Unrigged == Len(rig_obj'.animations) < Len(rig_obj.animations)

\* the drivers that do not drive the given path, in order
DriversElsewhere(drivers, path) ==
    LET Elsewhere(d) == d.data_path # path
    IN SelectSeq(drivers, Elsewhere)

\* the modifiers of another name, in order
ModifiersElse(modifiers, name) ==
    LET Else(m) == m.name # name
    IN SelectSeq(modifiers, Else)

\* an unrig of the binding with property p leaves no custom property p, no UI
\* metadata entry for p, no modifier named p and no binding entry, and leaves
\* the other bindings, properties, modifiers and drivers as they were
UnrigRemovesAllButDrivers ==
    [][Unrigged =>
          LET k == rig_obj.animation_index + 1
              p == rig_obj.animations[k].prop_name
          IN /\ p \notin DOMAIN rig_obj'.props
             /\ p \notin rig_obj'.rna_ui.keys
             /\ p \notin ModifierNames(rig_obj')
             /\ rig_obj'.animations = Remove(rig_obj.animations, k)
             /\ DOMAIN rig_obj'.props = DOMAIN rig_obj.props \ {p}
             /\ \A q \in DOMAIN rig_obj'.props : rig_obj'.props[q] = rig_obj.props[q]
             /\ rig_obj'.rna_ui.keys = rig_obj.rna_ui.keys \ {p}
             /\ rig_obj'.modifiers = ModifiersElse(rig_obj.modifiers, p)
             /\ DriversElsewhere(rig_obj'.drivers, OffsetPath(p)) =
                    DriversElsewhere(rig_obj.drivers, OffsetPath(p))]_vars

\* C31, as stated: after unrig of the active binding with property name p the
\* object has no driver whose data path is the offset of modifier p, no custom
\* property p, no UI metadata entry for p, no modifier named p and no such
\* binding entry.
C31_UnrigRemovesArtifacts ==
    [][Unrigged =>
          LET k == rig_obj.animation_index + 1
              p == rig_obj.animations[k].prop_name
          IN /\ \A d \in 1..Len(rig_obj'.drivers) :
                    rig_obj'.drivers[d].data_path # OffsetPath(p)
             /\ p \notin DOMAIN rig_obj'.props
             /\ p \notin rig_obj'.rna_ui.keys
             /\ p \notin ModifierNames(rig_obj')
             /\ rig_obj'.animations = Remove(rig_obj.animations, k)]_vars

\* the step paints: the pixels of the image change during the session
Paints == session = "modal" /\ canvas'.pix # canvas.pix

\* every cell of the line from one cell to the other is a cell of the image
LineInImage(img, from, to) ==
    LET dots == line(from[1], from[2], to[1], to[2])
    IN \A i \in 1..Len(dots) : dots[i] \in Hits(img)

\* C32, as stated: every cell painted in a paint session is a cell of the
\* image, 0 <= x < width and 0 <= y < height, whatever presses and moves the
\* session sees.
C32_PaintedCellsInImage ==
    [][Paints => LineInImage(canvas, last_px, last_px')]_vars

\* a paint whose origin was recorded by a press that hit the object stays
\* within the image
PaintFromRecordedOrigin ==
    [][(Paints /\ last_px \in Hits(canvas)) => LineInImage(canvas, last_px, last_px')]_vars

\* the step is the tick of a pending image or spritesheet update that writes
\* the host document
DeferredMutation ==
    /\ Host' # Host
    /\ \E i \in 1..Len(ops) : Ticked(i) /\ ops[i].kind # "report"

\* C33, as stated: no deferred image or spritesheet update writes host data
\* while the host reports its interface locked; the handler's lock check
\* still holds at the tick.
C33_NoMutationWhileLocked ==
    [][DeferredMutation => ~ReportsLocked]_vars

\* C34, as stated: deferred updates reach the host in the order of their
\* calls.  The tick of an update operator writes only when no operator of an
\* earlier call of the same kind for the same image is still pending.
C34_AppliedInCallOrder ==
    [][\A i \in 1..Len(ops) :
          (Ticked(i) /\ ops[i].kind # "report" /\ Host' # Host) =>
             ~\E j \in 1..(i - 1) : /\ ops[j].kind = ops[i].kind
                                    /\ ops[j].call.name = ops[i].call.name]_vars

\* C35: a Spritesheet update applied a second time right after the first
\* leaves the host as the first left it: the same images (no second companion
\* sheet), the same actions with the same keyframes, the same frame tables.
C35_SecondUpdateChangesNothing ==
    (input.f = "sheet_twice" /\ Len(output.hist) = 2) =>
        /\ DOMAIN output.hist[2].images = DOMAIN output.hist[1].images
        /\ DOMAIN output.hist[2].actions = DOMAIN output.hist[1].actions
        /\ output.hist[2].images = output.hist[1].images
        /\ output.hist[2].actions = output.hist[1].actions

\* C35 witness: a ping-pong tag over three frames has been applied twice to a
\* document without a sheet and with a longer stale curve: one sheet image
\* was made, and the tag's curve holds five keyframes after both
C35_Witness ==
    /\ input.f = "sheet_twice" /\ Len(output.hist) = 2
    /\ "a [sheet]" \notin DOMAIN input.images
    /\ "a: walk" \in DOMAIN input.actions
    /\ Len(input.actions["a: walk"].points) = 8
    /\ input.message.length = 3
    /\ input.message.tags # <<>> /\ input.message.tags[1][4] = 2
    /\ DOMAIN output.hist[2].images = {"a", "a [sheet]", "b"}
    /\ Len(output.hist[2].actions["a: walk"].points) = 5
    /\ output.hist[1].images["a [sheet]"].is_sheet

====
